---- MODULE Spec2Model ----
(***************************************************************************)
(* Verification model of the DynamoDB export pipeline of devo-cli:        *)
(*   - DynamoDBExporter.scan_table / query_table   (core/exporter.py)     *)
(*   - ParallelScanner.parallel_scan               (core/parallel_scanner)*)
(*   - _detect_usable_index / export_table_command (commands/export_table)*)
(* Three specifications share the variables below:                        *)
(*   SpecPage  one scan_table / query_table call against a paging client  *)
(*   SpecPar   one parallel_scan call with its worker pool                *)
(*   Spec      one run of export_table_command                            *)
(***************************************************************************)
EXTENDS Integers, Sequences, FiniteSets, TLC

\* ------------------------------------------------------------------------
\* Bounds of the model
\* ------------------------------------------------------------------------
MaxLimit == 3
MaxItemId == 2
MaxPageLen == 2
MaxRequests == 3
MaxSegments == 3
MaxSegRequests == 2
MaxSegPage == 1
MaxParLimit == 2

\* ------------------------------------------------------------------------
\* Python helpers
\* ------------------------------------------------------------------------
Min(a, b) == IF a <= b THEN a ELSE b

Max(a, b) == IF a >= b THEN a ELSE b

\* Python `s[:n]`: a negative n counts from the end of the list.
PySlice(s, n) ==
    IF n >= 0 THEN SubSeq(s, 1, Min(n, Len(s)))
    ELSE SubSeq(s, 1, Max(0, Len(s) + n))

\* Python truthiness of an Optional[int]: None and 0 are both false.
Truthy(has, n) == has /\ n # 0

RECURSIVE Concat(_)
Concat(ss) == IF ss = <<>> THEN <<>> ELSE Head(ss) \o Concat(Tail(ss))

\* All sequences over S of length at most n.
SeqsUpTo(S, n) == UNION {[1..k -> S] : k \in 0..n}

\* ------------------------------------------------------------------------
\* State
\* ------------------------------------------------------------------------
VARIABLES
    pg_pc,        \* position in scan_table/query_table: idle, loop, done, raised
    pg_op,        \* "scan" or "query"
    pg_has_limit, \* limit is not None
    pg_limit,     \* the limit argument
    pg_items,     \* the local list `items`
    pg_esk,       \* kwargs["ExclusiveStartKey"]; 0 when the key is absent
    pg_sent,      \* history: ExclusiveStartKey carried by each request issued
    pg_pages,     \* history: the responses of the client, [items, lek]
    pg_err,       \* error code of the ClientError that left the call, or "none"
    pg_env        \* what the client can answer: [batches, maxreq]

VARIABLES
    ps_pc,           \* parallel_scan: idle, call, submitted, collect, shutdown,
                     \*   returned, raised
    ps_total,        \* self.total_segments
    ps_has_limit,    \* limit is not None
    ps_limit,        \* the limit argument
    ps_mw_arg,       \* the max_workers argument; 0 models None
    ps_env,          \* what the table can answer: [sizes, maxreq, fail]
    ps_max_workers,  \* local max_workers
    ps_has_lps,      \* limit_per_segment is not None
    ps_lps,          \* limit_per_segment
    fut,             \* state of each segment's future: pending, running, done,
                     \*   failed, cancelled
    seg_items,       \* the local list `items` of each _scan_segment call
    seg_esk,         \* scan_kwargs["ExclusiveStartKey"] of each call; 0 = absent
    seg_reqs,        \* number of Scan requests each segment has issued
    ps_initial,      \* as_completed: futures found finished when it was entered
    ps_queue,        \* as_completed: futures finished since, in completion order
    ps_collected,    \* futures the `for` loop has been handed
    all_items,       \* the merged list
    failed_segments, \* the list of failed segment numbers
    ps_stopped,      \* the loop was left by `break` (limit reached)
    ps_abort,        \* RuntimeError is propagating
    ps_warned,       \* the partial-result warning was printed
    ps_result,       \* the list parallel_scan returned
    ps_order,        \* the segments whose scan has ended, in completion order
    seg_seen         \* per segment, the number of items its scan was sent

VARIABLES
    pc,            \* position in export_table_command
    args,          \* the options of the invocation
    loc,           \* the locals of export_table_command
    env,           \* what the run has read of its environment so far
    files_written, \* the files the run has created or written
    cmd_requests,  \* Scan/Query requests of the calls that have ended
    exit_code,     \* exit status of the process; -1 while it runs
    exit_at,       \* the place the run ended at
    throttled,     \* throughput errors that reached the command
    retries        \* calls the command issued again after such an error

pgvars == <<pg_pc, pg_op, pg_has_limit, pg_limit, pg_items, pg_esk, pg_sent,
            pg_pages, pg_err, pg_env>>

cmdvars == <<pc, args, loc, env, files_written, cmd_requests, exit_code,
             exit_at, throttled, retries>>

VARIABLES
    fb_pc,       \* a FilterBuilder instance: "idle" (none) or "ready"
    fb_builder,  \* its fields: [vc, nc, values, names], the maps by reference
    fb_heap,     \* the dict objects created so far, by reference
    fb_results   \* history: the build_filter calls and what they returned

fbvars == <<fb_pc, fb_builder, fb_heap, fb_results>>

\* The merge of a template with the command line (SpecTpl).
VARIABLES
    tpl_pc,         \* template merge: "idle", "args" or "merged"
    tpl_cli,        \* the options given on the command line
    tpl_template,   \* the stored template
    tpl_params      \* the parameters of export_table_command

tplvars == <<tpl_pc, tpl_cli, tpl_template, tpl_params>>

\* DynamoDBExporter._normalize_lists on one item (SpecNorm).
VARIABLES
    nz_pc,          \* _normalize_lists: "idle", "call" or "done"
    nz_data,        \* the item it is called with
    nz_rows         \* the rows it returned

nzvars == <<nz_pc, nz_data, nz_rows>>

\* DynamoDBExporter.export_to_csv in flatten mode (SpecCsv).
VARIABLES
    csv_pc,         \* export_to_csv: "idle", "call" or "done"
    csv_items,      \* the items, as runs of equal items: [item, count]
    csv_streaming,  \* the streaming argument
    csv_file        \* the file: [written, header, rows], rows as runs

csvvars == <<csv_pc, csv_items, csv_streaming, csv_file>>

\* The commit command (SpecCommit).
VARIABLES
    cm_pc,          \* the commit command: "idle", a step, or "done"
    cm_args,        \* its flags
    cm_loc,         \* its locals
    cm_env,         \* what it found: diff, branch, AI outcome, answers
    cm_ran,         \* the commands run and the browser opened, in order
    cm_out,         \* the messages printed
    cm_exit         \* the exit code, -1 while running

cmvars == <<cm_pc, cm_args, cm_loc, cm_env, cm_ran, cm_out, cm_exit>>

\* The MultiQuery branch of export_table_command with a projection (SpecDedup).
VARIABLES
    dd_pc,          \* MultiQuery loop: "idle", "call" or "done"
    dd_env,         \* projection, limit and what each branch query returns
    dd_items        \* all_items, each with the stored item it came from

ddvars == <<dd_pc, dd_env, dd_items>>

\* The index advisor on one filter expression.
VARIABLES
    adv_pc,         \* "call" before the advisor runs, "done" after
    adv_in,         \* the filter, its values and names, and the table
    adv_out         \* what _detect_usable_index returned

advvars == <<adv_pc, adv_in, adv_out>>

\* A run with --save-template followed by a run with --use-template.
VARIABLES
    rt_pc,          \* "first", "second", "done" or "failed"
    rt_cli,         \* the options of the first run and the size of the table
    rt_first,       \* the parameters the first run worked with
    rt_template,    \* the template the first run saved
    rt_second       \* the parameters the second run worked with

rtvars == <<rt_pc, rt_cli, rt_first, rt_template, rt_second>>

\* Two runs with the same options, one of them a dry run.
VARIABLES
    tw_pc,          \* "dry", "real" or "done"
    tw_cli,         \* the options of both runs, the size of the table, items found or not
    tw_dry,         \* the plan of the run with --dry-run
    tw_real         \* the plan of the run without it

twvars == <<tw_pc, tw_cli, tw_dry, tw_real>>

\* The managed section of the hosts file under add_entry and remove_entry.
VARIABLES
    hs_file,        \* the hosts file: has it the managed section, and the entries in it
    hs_last,        \* the last call of the HostsManager
    hs_calls        \* the number of calls so far

hsvars == <<hs_file, hs_last, hs_calls>>

\* The variables of the specifications of single functions.
auxvars == <<fbvars, tplvars, nzvars, csvvars, cmvars, ddvars, advvars, rtvars, twvars, hsvars>>

psargs == <<ps_total, ps_has_limit, ps_limit, ps_mw_arg, ps_env>>

psvars == <<ps_pc, psargs, ps_max_workers, ps_has_lps, ps_lps, fut, seg_items,
            seg_esk, seg_reqs, ps_initial, ps_queue, ps_collected, all_items,
            failed_segments, ps_stopped, ps_abort, ps_warned, ps_result,
            ps_order, seg_seen>>

vars == <<pgvars, psvars, cmdvars, auxvars>>

\* ------------------------------------------------------------------------
\* The DynamoDB client (environment)
\* ------------------------------------------------------------------------
ItemIds == 1..MaxItemId

\* The batches a single response can carry.
Batches == SeqsUpTo(ItemIds, MaxPageLen)

ErrorCodes == {"ProvisionedThroughputExceededException", "ValidationException"}

\* ------------------------------------------------------------------------
\* DynamoDBExporter.scan_table / query_table: the paging loop
\* ------------------------------------------------------------------------

\* One turn of `while True:` after the response arrived: extend, apply the
\* limit, test LastEvaluatedKey.  lek = 0 models a response without the key.
AccumulatePage(items, has_limit, limit, batch, lek) ==
    LET ext == items \o batch IN
    IF Truthy(has_limit, limit) /\ Len(ext) >= limit
    THEN [items |-> PySlice(ext, limit), stop |-> TRUE]
    ELSE [items |-> ext, stop |-> (lek = 0)]

\* A request answered by the client with a page.
PageResponse ==
    /\ pg_pc = "loop"
    /\ \E batch \in pg_env.batches, more \in BOOLEAN :
        /\ more => Len(pg_sent) + 1 < pg_env.maxreq
        /\ LET lek == IF more THEN Len(pg_sent) + 1 ELSE 0
               r == AccumulatePage(pg_items, pg_has_limit, pg_limit, batch, lek)
           IN /\ pg_sent' = Append(pg_sent, pg_esk)
              /\ pg_pages' = Append(pg_pages, [items |-> batch, lek |-> lek])
              /\ pg_items' = r.items
              /\ pg_pc' = IF r.stop THEN "done" ELSE "loop"
              /\ pg_esk' = IF r.stop THEN pg_esk ELSE lek
    /\ UNCHANGED <<pg_op, pg_has_limit, pg_limit, pg_err, pg_env>>
    /\ UNCHANGED <<psvars, cmdvars, auxvars>>

\* A request on which the client raises ClientError: nothing in the loop
\* catches it, the call is left by the exception.
PageError ==
    /\ pg_pc = "loop"
    /\ \E code \in ErrorCodes :
        /\ pg_sent' = Append(pg_sent, pg_esk)
        /\ pg_err' = code
        /\ pg_pc' = "raised"
    /\ UNCHANGED <<pg_op, pg_has_limit, pg_limit, pg_items, pg_esk, pg_pages,
                   pg_env>>
    /\ UNCHANGED <<psvars, cmdvars, auxvars>>

\* No call is running: there is nothing to answer.
NoClient == [batches |-> {}, maxreq |-> 0]

PageIdle ==
    /\ pg_pc = "idle"
    /\ pg_op = "scan"
    /\ pg_has_limit = FALSE
    /\ pg_limit = 0
    /\ pg_items = <<>>
    /\ pg_esk = 0
    /\ pg_sent = <<>>
    /\ pg_pages = <<>>
    /\ pg_err = "none"
    /\ pg_env = NoClient

ParIdle ==
    /\ ps_pc = "idle"
    /\ ps_total = 0
    /\ ps_has_limit = FALSE
    /\ ps_limit = 0
    /\ ps_mw_arg = 0
    /\ ps_env = [sizes |-> {}, maxreq |-> 0, fail |-> FALSE]
    /\ ps_max_workers = 0
    /\ ps_has_lps = FALSE
    /\ ps_lps = 0
    /\ fut = <<>>
    /\ seg_items = <<>>
    /\ seg_esk = <<>>
    /\ seg_reqs = <<>>
    /\ ps_initial = {}
    /\ ps_queue = <<>>
    /\ ps_collected = {}
    /\ all_items = <<>>
    /\ failed_segments = <<>>
    /\ ps_stopped = FALSE
    /\ ps_abort = FALSE
    /\ ps_warned = FALSE
    /\ ps_result = <<>>
    /\ ps_order = <<>>
    /\ seg_seen = <<>>

NoArgs == [dry_run |-> FALSE]

FbIdle ==
    /\ fb_pc = "idle"
    /\ fb_builder = NoArgs
    /\ fb_heap = <<>>
    /\ fb_results = <<>>

TplIdle ==
    /\ tpl_pc = "idle"
    /\ tpl_cli = NoArgs
    /\ tpl_template = NoArgs
    /\ tpl_params = NoArgs

NzIdle ==
    /\ nz_pc = "idle"
    /\ nz_data = NoArgs
    /\ nz_rows = <<>>

CsvIdle ==
    /\ csv_pc = "idle"
    /\ csv_items = <<>>
    /\ csv_streaming = FALSE
    /\ csv_file = NoArgs

CmIdle ==
    /\ cm_pc = "idle"
    /\ cm_args = NoArgs
    /\ cm_loc = NoArgs
    /\ cm_env = NoArgs
    /\ cm_ran = <<>>
    /\ cm_out = {}
    /\ cm_exit = -1

DdIdle ==
    /\ dd_pc = "idle"
    /\ dd_env = NoArgs
    /\ dd_items = <<>>

AdvIdle ==
    /\ adv_pc = "idle"
    /\ adv_in = <<>>
    /\ adv_out = <<>>

RtIdle ==
    /\ rt_pc = "idle"
    /\ rt_cli = <<>>
    /\ rt_first = <<>>
    /\ rt_template = <<>>
    /\ rt_second = <<>>

TwIdle ==
    /\ tw_pc = "idle"
    /\ tw_cli = <<>>
    /\ tw_dry = <<>>
    /\ tw_real = <<>>

HsIdle ==
    /\ hs_file = <<>>
    /\ hs_last = <<>>
    /\ hs_calls = 0

AuxIdle == FbIdle /\ TplIdle /\ NzIdle /\ CsvIdle /\ CmIdle /\ DdIdle /\ AdvIdle /\ RtIdle /\ TwIdle /\ HsIdle

CmdIdle ==
    /\ pc = "idle"
    /\ args = NoArgs
    /\ loc = NoArgs
    /\ env = NoArgs
    /\ files_written = {}
    /\ cmd_requests = 0
    /\ exit_code = -1
    /\ exit_at = "none"
    /\ throttled = 0
    /\ retries = 0

InitPage ==
    /\ ParIdle
    /\ CmdIdle
    /\ AuxIdle
    /\ pg_env = [batches |-> Batches, maxreq |-> MaxRequests]
    /\ pg_pc = "loop"
    /\ pg_op \in {"scan", "query"}
    /\ pg_has_limit \in BOOLEAN
    /\ pg_limit \in 0..MaxLimit
    /\ pg_has_limit = FALSE => pg_limit = 0
    /\ pg_items = <<>>
    /\ pg_esk = 0
    /\ pg_sent = <<>>
    /\ pg_pages = <<>>
    /\ pg_err = "none"

NextPage == PageResponse \/ PageError

SpecPage == InitPage /\ [][NextPage]_vars

\* ------------------------------------------------------------------------
\* C3
\* ------------------------------------------------------------------------
PageTotal == Concat([i \in 1..Len(pg_pages) |-> pg_pages[i].items])

\* C3: scan_table/query_table called with a limit L return, for every limit
\* value, the first min(L, total) items of the concatenated pages and never
\* more than L items; the first request carries no ExclusiveStartKey, each
\* later one the previous LastEvaluatedKey, and paging stops exactly when a
\* response has no LastEvaluatedKey or L items have been accumulated.
C3_LimitIsHardCap ==
    (pg_has_limit /\ pg_pc \in {"loop", "done"}) =>
        /\ pg_pc = "done" =>
              /\ Len(pg_items) <= pg_limit
              /\ pg_items = SubSeq(PageTotal, 1, Min(pg_limit, Len(PageTotal)))
        /\ \A i \in 1..Len(pg_sent) :
              pg_sent[i] = IF i = 1 THEN 0 ELSE pg_pages[i - 1].lek
        /\ pg_pc = "done" <=>
              (pg_pages # <<>> /\
                 (pg_pages[Len(pg_pages)].lek = 0 \/ Len(PageTotal) >= pg_limit))

\* ------------------------------------------------------------------------
\* Filter expressions
\* A filter is the sequence of its lexemes: words, literals, placeholders,
\* operators, "(" and ")".  Lexemes are separated by blanks in the text,
\* except that a parenthesis and the "." of a document path touch their
\* neighbours.
\* ------------------------------------------------------------------------
AttrNames == {"a", "b", "c", "pk", "status", "info", "order"}

Literals == {"1", "2", "3", "error"}

\* f":val{self.value_counter}" and f"#attr{self.name_counter}"
ValPlaceholders ==
    <<":val0", ":val1", ":val2", ":val3", ":val4", ":val5", ":val6", ":val7",
      ":val8", ":val9">>

NamePlaceholders == <<"#attr0", "#attr1", "#attr2", "#attr3">>

Range(f) == {f[i] : i \in DOMAIN f}

\* The names of the model that are in RESERVED_KEYWORDS.
ReservedKeywords == {"status", "order"}

\* `attr_name.lower() in self.RESERVED_KEYWORDS or "." in attr_name`; an
\* attribute name is the sequence of its lexemes.
needs_placeholder(attr) ==
    \/ Len(attr) = 1 /\ attr[1] \in ReservedKeywords
    \/ \E i \in 1..Len(attr) : attr[i] = "."

AndLexemes == {"AND", "and"}

OrLexemes == {"OR", "or"}

ComparisonOps == <<"!=", ">=", "<=", "=", ">", "<">>

CountOf(expr, lx) == Cardinality({i \in 1..Len(expr) : expr[i] = lx})

\* FilterBuilder._count_parentheses
count_parentheses(expr) == CountOf(expr, "(") - CountOf(expr, ")")

\* Two given lexemes next to each other somewhere in expr.
HasPair(expr, x, y) == \E i \in 1..(Len(expr) - 1) : expr[i] = x /\ expr[i + 1] = y

HasTriple(expr, X, Y, Z) ==
    \E i \in 1..(Len(expr) - 2) : expr[i] \in X /\ expr[i + 1] \in Y /\ expr[i + 2] \in Z

\* The patterns of _validate_syntax are searched in the text, ignoring
\* case and word boundaries: the lexemes that end with, and those that
\* start with, the letters "and" / "or" and the characters "=", ">", "<".
EndsWithAnd == AndLexemes

StartsWithAnd == AndLexemes

EndsWithOr == OrLexemes \cup {"error"}

StartsWithOr == OrLexemes \cup {"order"}

EndsWithEq == {"=", "!=", ">=", "<="}

StartsWithEq == {"="}

EndsWithGt == {">", "<>"}

StartsWithGt == {">", ">="}

EndsWithLt == {"<"}

StartsWithLt == {"<", "<=", "<>"}

HasPairIn(expr, X, Y) ==
    \E i \in 1..(Len(expr) - 1) : expr[i] \in X /\ expr[i + 1] \in Y

\* FilterBuilder._validate_syntax
validate_syntax(expr) ==
    /\ CountOf(expr, "(") = CountOf(expr, ")")
    /\ ~HasPair(expr, "(", ")")
    /\ ~HasPairIn(expr, EndsWithAnd, StartsWithAnd)
    /\ ~HasPairIn(expr, EndsWithOr, StartsWithOr)
    /\ ~HasTriple(expr, EndsWithAnd, OrLexemes, StartsWithAnd)
    /\ ~HasTriple(expr, EndsWithOr, AndLexemes, StartsWithOr)
    /\ ~HasPairIn(expr, EndsWithEq, StartsWithEq)
    /\ ~HasPairIn(expr, EndsWithGt, StartsWithGt)
    /\ ~HasPairIn(expr, EndsWithLt, StartsWithLt)

\* The state of a FilterBuilder: the two counters and the two maps (the
\* n-th entry of values / names is the entry of :val(n-1) / #attr(n-1)).
FreshBuilder == [vc |-> 0, nc |-> 0, values |-> <<>>, names |-> <<>>]

\* The split at the last operator of the top level.
split_at_last_operator(expr, ops) ==
    LET top == {i \in 2..(Len(expr) - 1) :
                   /\ expr[i] \in ops
                   /\ count_parentheses(SubSeq(expr, 1, i - 1)) = 0}
    IN IF top = {} THEN <<>>
       ELSE LET i == CHOOSE j \in top : \A k \in top : k <= j
            IN <<SubSeq(expr, 1, i - 1), SubSeq(expr, i + 1, Len(expr))>>

\* FilterBuilder._split_by_operator: the first operator lexeme that has
\* blanks on both sides and as many "(" as ")" before it; <<>> models None.
split_by_operator(expr, ops) ==
    LET top == {i \in 2..(Len(expr) - 1) :
                   /\ expr[i] \in ops
                   /\ count_parentheses(SubSeq(expr, 1, i - 1)) = 0}
    IN IF top = {} THEN <<>>
       ELSE LET i == CHOOSE j \in top : \A k \in top : j <= k
            IN <<SubSeq(expr, 1, i - 1), SubSeq(expr, i + 1, Len(expr))>>

\* The first comparison operator, in the order the code tries them, that
\* occurs with blanks on both sides; 0 when there is none.
first_comparison(expr) ==
    LET has(k) == \E i \in 2..(Len(expr) - 1) : expr[i] = ComparisonOps[k]
        ks == {k \in 1..Len(ComparisonOps) : has(k)}
    IN IF ks = {} THEN 0 ELSE CHOOSE k \in ks : \A m \in ks : k <= m

\* FilterBuilder._process_comparison, with _get_name_placeholder,
\* _get_value_placeholder and the store of the value text.
process_comparison(expr, op, st) ==
    LET pos == {i \in 2..(Len(expr) - 1) : expr[i] = op}
        i == CHOOSE j \in pos : \A k \in pos : j <= k
        attr == SubSeq(expr, 1, i - 1)
        value == SubSeq(expr, i + 1, Len(expr))
        alias == needs_placeholder(attr)
        name == IF alias THEN <<NamePlaceholders[st.nc + 1]>> ELSE attr
        wire == IF op = "!=" THEN "<>" ELSE op
    IN [expr |-> name \o <<wire, ValPlaceholders[st.vc + 1]>>,
        st |-> [vc |-> st.vc + 1,
                nc |-> IF alias THEN st.nc + 1 ELSE st.nc,
                values |-> Append(st.values, value),
                names |-> IF alias THEN Append(st.names, attr) ELSE st.names]]

BetweenLexemes == {"BETWEEN", "between"}

\* The lexemes r"\w+" matches as a whole.
PlainWords == AttrNames \cup Literals

\* `" BETWEEN " in expr or " between " in expr`
has_between(expr) == \E i \in 2..(Len(expr) - 1) : expr[i] \in BetweenLexemes

\* FilterBuilder._process_between: the pattern is matched at the start of
\* the text, value1 ends at the first AND after it, value2 is all the rest.
process_between(expr, st) ==
    LET ands == {j \in 4..(Len(expr) - 1) : expr[j] \in AndLexemes}
        matched == /\ Len(expr) >= 5
                   /\ expr[1] \in PlainWords
                   /\ expr[2] \in BetweenLexemes
                   /\ ands # {}
        j == CHOOSE m \in ands : \A k \in ands : m <= k
        attr == <<expr[1]>>
        alias == needs_placeholder(attr)
        name == IF alias THEN <<NamePlaceholders[st.nc + 1]>> ELSE attr
    IN IF ~matched THEN [expr |-> expr, st |-> st]
       ELSE [expr |-> name \o <<"BETWEEN", ValPlaceholders[st.vc + 1], "AND",
                                ValPlaceholders[st.vc + 2]>>,
             st |-> [vc |-> st.vc + 2,
                     nc |-> IF alias THEN st.nc + 1 ELSE st.nc,
                     values |-> st.values \o <<SubSeq(expr, 3, j - 1),
                                               SubSeq(expr, j + 1, Len(expr))>>,
                     names |-> IF alias THEN Append(st.names, attr)
                               ELSE st.names]]

\* FilterBuilder._process_expression, for filters made of comparisons,
\* BETWEEN, AND, OR and parentheses.
RECURSIVE process_expression(_, _)
process_expression(expr, st) ==
    IF /\ Len(expr) >= 2
       /\ expr[1] = "("
       /\ expr[Len(expr)] = ")"
       /\ count_parentheses(SubSeq(expr, 2, Len(expr) - 1)) = 0
    THEN process_expression(SubSeq(expr, 2, Len(expr) - 1), st)
    ELSE
    LET and_split == split_by_operator(expr, AndLexemes)
        or_split == split_by_operator(expr, OrLexemes)
        join(parts, word) ==
            LET left == process_expression(parts[1], st)
                right == process_expression(parts[2], left.st)
            IN [expr |-> <<"(">> \o left.expr \o <<word>> \o right.expr \o <<")">>,
                st |-> right.st]
        k == first_comparison(expr)
    IN IF has_between(expr) THEN process_between(expr, st)
       ELSE IF and_split # <<>> THEN join(and_split, "AND")
       ELSE IF or_split # <<>> THEN join(or_split, "OR")
       ELSE IF k # 0 THEN process_comparison(expr, ComparisonOps[k], st)
       ELSE [expr |-> expr, st |-> st]

\* FilterBuilder.build_filter on a fresh builder: [ok, expr, values, names].
build_filter(filter_str) ==
    IF filter_str = <<>>
    THEN [ok |-> TRUE, expr |-> <<>>, values |-> <<>>, names |-> <<>>]
    ELSE IF ~validate_syntax(filter_str)
    THEN [ok |-> FALSE, expr |-> <<>>, values |-> <<>>, names |-> <<>>]
    ELSE LET r == process_expression(filter_str, FreshBuilder)
         IN [ok |-> TRUE, expr |-> r.expr, values |-> r.st.values,
             names |-> r.st.names]

\* ------------------------------------------------------------------------
\* _detect_usable_index
\* A table_info is [hash, range, gsis], gsis a sequence of
\* [name, status, hash]: the HASH (and RANGE) attribute of the key schemas.
\* ------------------------------------------------------------------------
WordLexemes == AttrNames \cup Literals \cup Range(NamePlaceholders)

ValueRefs == Range(ValPlaceholders)

\* re.findall(r"(#?\w+)\s*=\s*(:\w+)", filter_expression): the word may
\* be the last step of a document path.
RECURSIVE equality_matches(_)
equality_matches(expr) ==
    IF Len(expr) < 3 THEN <<>>
    ELSE IF expr[1] \in WordLexemes /\ expr[2] = "=" /\ expr[3] \in ValueRefs
    THEN <<[attr |-> expr[1], value |-> expr[3]]>>
            \o equality_matches(SubSeq(expr, 4, Len(expr)))
    ELSE equality_matches(Tail(expr))

\* `" OR " in normalized_expr.upper()` after parentheses became blanks
has_or(expr) == \E i \in 2..(Len(expr) - 1) : expr[i] \in OrLexemes

\* expression_attribute_names.get(attr, attr) for a "#..." reference: the
\* attribute name, as the sequence of its lexemes.
resolve_attr(attr, names) ==
    IF \E i \in 1..Len(names) : NamePlaceholders[i] = attr
    THEN names[CHOOSE i \in 1..Len(names) : NamePlaceholders[i] = attr]
    ELSE <<attr>>

\* The entries one key contributes to indexed_attrs: one per equality on it.
RECURSIVE key_entries(_, _, _, _)
key_entries(matches, names, key_name, index_name) ==
    IF matches = <<>> THEN <<>>
    ELSE (IF resolve_attr(Head(matches).attr, names) = <<key_name>>
          THEN <<[key_attribute |-> key_name, index_name |-> index_name,
                  attr_ref |-> Head(matches).attr,
                  value_ref |-> Head(matches).value]>>
          ELSE <<>>)
         \o key_entries(Tail(matches), names, key_name, index_name)

\* `if gsi.get("IndexStatus", "ACTIVE") != "ACTIVE": continue`
gsi_usable(gsi) == gsi.status = "ACTIVE"

\* The loop over table_info["global_indexes"] of the OR branch.
RECURSIVE gsi_entries(_, _, _)
gsi_entries(matches, names, gsis) ==
    IF gsis = <<>> THEN <<>>
    ELSE (IF ~gsi_usable(Head(gsis)) THEN <<>>
          ELSE key_entries(matches, names, Head(gsis).hash, Head(gsis).name))
         \o gsi_entries(matches, names, Tail(gsis))

\* indexed_attrs of the OR branch: GSIs first, then the main table
\* (index_name "" models None).
indexed_attrs(matches, names, table_info) ==
    gsi_entries(matches, names, table_info.gsis)
        \o key_entries(matches, names, table_info.hash, "")

\* equality_conditions[key_name]: the last equality on the resolved name.
equality_condition(matches, names, key_name) ==
    LET hits == {i \in 1..Len(matches) :
                    resolve_attr(matches[i].attr, names) = <<key_name>>}
    IN IF hits = {} THEN <<>>
       ELSE <<matches[CHOOSE i \in hits : \A j \in hits : j <= i]>>

\* The one blank that re.sub leaves where a clause has been.
Blank == " "

\* re.sub(condition_pattern, " ", remaining_filter): every occurrence of
\* the key clause goes, with an AND/OR right before and right after it,
\* and a blank takes its place.
RECURSIVE remove_condition(_, _, _)
remove_condition(expr, attr_ref, value_ref) ==
    LET clause_at(i) ==
            /\ Len(expr) >= i + 2
            /\ expr[i] = attr_ref /\ expr[i + 1] = "=" /\ expr[i + 2] = value_ref
        after(i) ==
            IF Len(expr) >= i /\ expr[i] \in {"AND", "OR"}
            THEN SubSeq(expr, i + 1, Len(expr))
            ELSE SubSeq(expr, i, Len(expr))
    IN IF expr = <<>> THEN <<>>
       ELSE IF expr[1] \in {"AND", "OR"} /\ clause_at(2)
       THEN <<Blank>> \o remove_condition(after(5), attr_ref, value_ref)
       ELSE IF clause_at(1)
       THEN <<Blank>> \o remove_condition(after(4), attr_ref, value_ref)
       ELSE <<Head(expr)>> \o remove_condition(Tail(expr), attr_ref, value_ref)

\* str.strip() on the lexemes: the blanks at both ends go.
RECURSIVE strip(_)
strip(expr) ==
    IF expr = <<>> THEN <<>>
    ELSE IF Head(expr) = Blank THEN strip(Tail(expr))
    ELSE IF expr[Len(expr)] = Blank THEN strip(SubSeq(expr, 1, Len(expr) - 1))
    ELSE expr

\* The clean-up of a leading and a trailing AND/OR, and the test for an
\* empty remainder; <<>> models None.  The blanks inside the remainder
\* mean nothing to DynamoDB and are dropped from the result.
remaining_filter(expr, attr_ref, value_ref) ==
    LET r1 == strip(remove_condition(expr, attr_ref, value_ref))
        r2 == IF Len(r1) >= 2 /\ r1[1] \in {"AND", "OR"}
              THEN strip(Tail(r1)) ELSE r1
        r3 == IF Len(r2) >= 2 /\ r2[Len(r2)] \in {"AND", "OR"}
              THEN strip(SubSeq(r2, 1, Len(r2) - 1)) ELSE r2
    IN IF r3 = <<"(", ")">> THEN <<>> ELSE SelectSeq(r3, LAMBDA x : x # Blank)

\* The first active GSI whose HASH key has an equality condition; 0 if none.
first_usable_gsi(matches, names, gsis) ==
    LET ok == {i \in 1..Len(gsis) :
                  /\ gsi_usable(gsis[i])
                  /\ equality_condition(matches, names, gsis[i].hash) # <<>>}
    IN IF ok = {} THEN 0 ELSE CHOOSE i \in ok : \A j \in ok : i <= j

NoDetection == [kind |-> "none"]

\* _detect_usable_index
detect_usable_index(expr, names, table_info) ==
    LET matches == equality_matches(expr)
        query(key_name, index_name) ==
            LET c == equality_condition(matches, names, key_name)[1]
            IN [kind |-> "query", has_or |-> FALSE, index_name |-> index_name,
                key_condition |-> <<c.attr, "=", c.value>>,
                remaining_filter |-> remaining_filter(expr, c.attr, c.value),
                key_attribute |-> key_name]
        g == first_usable_gsi(matches, names, table_info.gsis)
    IN IF expr = <<>> THEN NoDetection
       ELSE IF has_or(expr)
       THEN IF matches = <<>> \/ indexed_attrs(matches, names, table_info) = <<>>
            THEN NoDetection
            ELSE [kind |-> "or", has_or |-> TRUE,
                  indexed_attributes |-> indexed_attrs(matches, names, table_info)]
       ELSE IF matches = <<>> THEN NoDetection
       ELSE IF g # 0 THEN query(table_info.gsis[g].hash, table_info.gsis[g].name)
       ELSE IF equality_condition(matches, names, table_info.hash) # <<>>
       THEN query(table_info.hash, "")
       ELSE NoDetection

\* `or_parts = re.split(r"\s+(?:OR|or)\s+", filter)`: their number
or_parts_count(expr) ==
    Cardinality({i \in 2..(Len(expr) - 1) : expr[i] \in OrLexemes}) + 1

MaxQueries == 5

\* can_multi_query and len(indexed_attrs) >= 2
can_multi_query(expr, indexed) ==
    /\ or_parts_count(expr) = Len(indexed)
    /\ or_parts_count(expr) <= MaxQueries
    /\ Len(indexed) >= 2


\* ------------------------------------------------------------------------
\* ParallelScanner
\* ------------------------------------------------------------------------
WorkerCap == 10
SegmentBuffer == 50

Segments == 0..(ps_total - 1)

\* max_workers = min(self.total_segments, 10) unless the caller passes one.
\* One worker per segment up to the cap, whatever the caller passed.
default_max_workers_ignoring_arg(mw_arg, total) == Min(total, WorkerCap)

\* `if max_workers is None: max_workers = min(self.total_segments, 10)`;
\* 0 models None.
default_max_workers(mw_arg, total) ==
    IF mw_arg = 0 THEN Min(total, WorkerCap) ELSE mw_arg

\* int(limit * 1.5 / self.total_segments) + 50, for a non-negative limit.
limit_per_segment(limit, total) == ((3 * limit) \div (2 * total)) + SegmentBuffer

\* _scan_segment, one turn of `while True:` after the response arrived.
scan_segment_step(items, has_limit, limit, batch, lek) ==
    LET ext == items \o batch IN
    IF Truthy(has_limit, limit) /\ Len(ext) >= limit
    THEN [items |-> PySlice(ext, limit), stop |-> TRUE]
    ELSE [items |-> ext, stop |-> (lek = 0)]

\* The threshold test with `>=` in place of `>`.
too_many_failures_at_half(nfailed, total) == 2 * nfailed >= total

\* `len(failed_segments) > self.total_segments / 2`
too_many_failures(nfailed, total) == 2 * nfailed > total

\* `limit and len(all_items) >= limit`
limit_reached(has_limit, limit, n) == Truthy(has_limit, limit) /\ n >= limit

\* `if limit and len(all_items) > limit: all_items = all_items[:limit]`
apply_global_limit(items, has_limit, limit) ==
    IF Truthy(has_limit, limit) /\ Len(items) > limit
    THEN PySlice(items, limit) ELSE items

Finished(st) == st \in {"done", "failed", "cancelled"}

NRunning == Cardinality({s \in Segments : fut[s] = "running"})

\* The waiter handing over the latest finished future first.
EnqueueFront(s) == IF ps_pc = "collect" THEN <<s>> \o ps_queue ELSE ps_queue

\* A future that finishes is handed to as_completed's waiter once the
\* generator has been entered.
Enqueue(s) == IF ps_pc = "collect" THEN Append(ps_queue, s) ELSE ps_queue

\* parallel_scan up to the end of the submit comprehension.
ParCall ==
    /\ ps_pc = "call"
    /\ ps_max_workers' = default_max_workers(ps_mw_arg, ps_total)
    /\ ps_has_lps' = Truthy(ps_has_limit, ps_limit)
    /\ ps_lps' = IF Truthy(ps_has_limit, ps_limit)
                 THEN limit_per_segment(ps_limit, ps_total) ELSE 0
    /\ fut' = [s \in Segments |-> "pending"]
    /\ seg_items' = [s \in Segments |-> <<>>]
    /\ seg_esk' = [s \in Segments |-> 0]
    /\ seg_reqs' = [s \in Segments |-> 0]
    /\ ps_pc' = "submitted"
    /\ UNCHANGED <<psargs, ps_initial, ps_queue, ps_collected, all_items,
                   failed_segments, ps_stopped, ps_abort, ps_warned, ps_result>>
    /\ seg_seen' = [s \in Segments |-> 0]
    /\ UNCHANGED ps_order
    /\ UNCHANGED <<pgvars, cmdvars, auxvars>>

\* A free worker thread takes the oldest queued work item.
SegStart ==
    /\ ps_pc \in {"submitted", "collect", "shutdown"}
    /\ NRunning < ps_max_workers
    /\ \E s \in Segments :
        /\ fut[s] = "pending"
        /\ \A t \in Segments : t < s => fut[t] # "pending"
        /\ fut' = [fut EXCEPT ![s] = "running"]
    /\ UNCHANGED <<ps_pc, psargs, ps_max_workers, ps_has_lps, ps_lps, seg_items,
                   seg_esk, seg_reqs, ps_initial, ps_queue, ps_collected,
                   all_items, failed_segments, ps_stopped, ps_abort, ps_warned,
                   ps_result>>
    /\ UNCHANGED <<ps_order, seg_seen>>
    /\ UNCHANGED <<pgvars, cmdvars, auxvars>>

\* A Scan request of segment s answered with a page of n fresh items.
SegResponse ==
    /\ ps_pc \in {"submitted", "collect", "shutdown"}
    /\ \E s \in Segments, n \in ps_env.sizes, more \in BOOLEAN :
        /\ fut[s] = "running"
        /\ more => seg_reqs[s] + 1 < ps_env.maxreq
        /\ LET base == seg_reqs[s] * 100
               batch == [i \in 1..n |-> <<s, base + i>>]
               lek == IF more THEN seg_reqs[s] + 1 ELSE 0
               r == scan_segment_step(seg_items[s], ps_has_lps, ps_lps, batch, lek)
           IN /\ seg_items' = [seg_items EXCEPT ![s] = r.items]
              /\ seg_reqs' = [seg_reqs EXCEPT ![s] = @ + 1]
              /\ seg_esk' = [seg_esk EXCEPT ![s] = IF r.stop THEN @ ELSE lek]
              /\ fut' = [fut EXCEPT ![s] = IF r.stop THEN "done" ELSE @]
              /\ ps_queue' = IF r.stop THEN Enqueue(s) ELSE ps_queue
              /\ ps_order' = IF r.stop THEN Append(ps_order, s) ELSE ps_order
              /\ seg_seen' = [seg_seen EXCEPT ![s] = @ + n]
    /\ UNCHANGED <<ps_pc, psargs, ps_max_workers, ps_has_lps, ps_lps, ps_initial,
                   ps_collected, all_items, failed_segments, ps_stopped,
                   ps_abort, ps_warned, ps_result>>
    /\ UNCHANGED <<pgvars, cmdvars, auxvars>>

\* A Scan request of segment s on which the client raises: _scan_segment
\* catches nothing, the exception becomes the future's result.
SegError ==
    /\ ps_pc \in {"submitted", "collect", "shutdown"}
    /\ ps_env.fail
    /\ \E s \in Segments :
        /\ fut[s] = "running"
        /\ seg_reqs' = [seg_reqs EXCEPT ![s] = @ + 1]
        /\ fut' = [fut EXCEPT ![s] = "failed"]
        /\ ps_queue' = Enqueue(s)
        /\ ps_order' = Append(ps_order, s)
        /\ UNCHANGED seg_seen
    /\ UNCHANGED <<ps_pc, psargs, ps_max_workers, ps_has_lps, ps_lps, seg_items,
                   seg_esk, ps_initial, ps_collected, all_items, failed_segments,
                   ps_stopped, ps_abort, ps_warned, ps_result>>
    /\ UNCHANGED <<pgvars, cmdvars, auxvars>>

\* as_completed(futures) is entered: the futures already finished are set
\* aside (they are yielded first, in no particular order).
BeginCollect ==
    /\ ps_pc = "submitted"
    /\ ps_initial' = {s \in Segments : Finished(fut[s])}
    /\ ps_pc' = "collect"
    /\ UNCHANGED <<psargs, ps_max_workers, ps_has_lps, ps_lps, fut, seg_items,
                   seg_esk, seg_reqs, ps_queue, ps_collected, all_items,
                   failed_segments, ps_stopped, ps_abort, ps_warned, ps_result>>
    /\ UNCHANGED <<ps_order, seg_seen>>
    /\ UNCHANGED <<pgvars, cmdvars, auxvars>>

\* The body of `for future in as_completed(futures)` for segment s.
CollectBody(s) ==
    /\ ps_collected' = ps_collected \cup {s}
    /\ IF fut[s] = "done"
       THEN LET merged == all_items \o seg_items[s] IN
            /\ all_items' = merged
            /\ failed_segments' = failed_segments
            /\ ps_abort' = FALSE
            /\ IF limit_reached(ps_has_limit, ps_limit, Len(merged))
               THEN /\ fut' = [t \in Segments |->
                                 IF fut[t] = "pending" THEN "cancelled" ELSE fut[t]]
                    /\ ps_stopped' = TRUE
                    /\ ps_pc' = "shutdown"
               ELSE /\ fut' = fut
                    /\ ps_stopped' = FALSE
                    /\ ps_pc' = "collect"
       ELSE LET failed == Append(failed_segments, s) IN
            /\ all_items' = all_items
            /\ failed_segments' = failed
            /\ fut' = fut
            /\ ps_stopped' = FALSE
            /\ IF too_many_failures(Len(failed), ps_total)
               THEN ps_abort' = TRUE /\ ps_pc' = "shutdown"
               ELSE ps_abort' = FALSE /\ ps_pc' = "collect"

\* The loop is handed the next finished future.
Collect ==
    /\ ps_pc = "collect"
    /\ \/ \E s \in ps_initial :
            /\ ps_initial' = ps_initial \ {s}
            /\ ps_queue' = ps_queue
            /\ CollectBody(s)
       \/ /\ ps_initial = {}
          /\ ps_queue # <<>>
          /\ ps_initial' = ps_initial
          /\ ps_queue' = Tail(ps_queue)
          /\ CollectBody(Head(ps_queue))
    /\ UNCHANGED <<psargs, ps_max_workers, ps_has_lps, ps_lps, seg_items,
                   seg_esk, seg_reqs, ps_warned, ps_result>>
    /\ UNCHANGED <<ps_order, seg_seen>>
    /\ UNCHANGED <<pgvars, cmdvars, auxvars>>

\* as_completed is exhausted: every future has been handed to the loop.
CollectEnd ==
    /\ ps_pc = "collect"
    /\ ps_collected = Segments
    /\ ps_pc' = "shutdown"
    /\ UNCHANGED <<psargs, ps_max_workers, ps_has_lps, ps_lps, fut, seg_items,
                   seg_esk, seg_reqs, ps_initial, ps_queue, ps_collected,
                   all_items, failed_segments, ps_stopped, ps_abort, ps_warned,
                   ps_result>>
    /\ UNCHANGED <<ps_order, seg_seen>>
    /\ UNCHANGED <<pgvars, cmdvars, auxvars>>

\* Leaving `with ThreadPoolExecutor(...)`: shutdown(wait=True) returns once
\* no work item is queued or running; then the exception propagates, or the
\* warning is printed, the global limit applied and the list returned.
ParExit ==
    /\ ps_pc = "shutdown"
    /\ \A s \in Segments : Finished(fut[s])
    /\ IF ps_abort
       THEN /\ ps_pc' = "raised"
            /\ UNCHANGED <<ps_warned, ps_result>>
       ELSE /\ ps_pc' = "returned"
            /\ ps_warned' = (failed_segments # <<>>)
            /\ ps_result' = apply_global_limit(all_items, ps_has_limit, ps_limit)
    /\ UNCHANGED <<psargs, ps_max_workers, ps_has_lps, ps_lps, fut, seg_items,
                   seg_esk, seg_reqs, ps_initial, ps_queue, ps_collected,
                   all_items, failed_segments, ps_stopped, ps_abort>>
    /\ UNCHANGED <<ps_order, seg_seen>>
    /\ UNCHANGED <<pgvars, cmdvars, auxvars>>

\* The tables a parallel_scan is run against: small ones whose segments may
\* fail, and the 4-segment table of the limit=50 example, every segment of
\* which holds more than its share of the limit.
SmallTable == [sizes |-> 0..MaxSegPage, maxreq |-> MaxSegRequests, fail |-> TRUE]

BigTable == [sizes |-> {13, 70}, maxreq |-> 1, fail |-> FALSE]

\* A 4-segment table whose matching items may all lie in one segment: a
\* segment answers with no item or with 100, in one page.
SkewedTable == [sizes |-> {0, 100}, maxreq |-> 1, fail |-> FALSE]

InitPar ==
    /\ PageIdle
    /\ CmdIdle
    /\ AuxIdle
    /\ ps_pc = "call"
    /\ \/ /\ ps_total \in 1..MaxSegments
          /\ ps_has_limit \in BOOLEAN
          /\ ps_limit \in 0..MaxParLimit
          /\ ps_has_limit = FALSE => ps_limit = 0
          /\ ps_mw_arg \in {0, 1}
          /\ ps_env = SmallTable
       \/ /\ ps_total = 4
          /\ ps_has_limit = TRUE
          /\ ps_limit = 50
          /\ ps_mw_arg = 0
          /\ ps_env = BigTable
       \/ /\ ps_total = 4
          /\ ps_has_limit = TRUE
          /\ ps_limit = 81
          /\ ps_mw_arg = 0
          /\ ps_env = SkewedTable
    /\ ps_max_workers = 0
    /\ ps_has_lps = FALSE
    /\ ps_lps = 0
    /\ fut = <<>>
    /\ seg_items = <<>>
    /\ seg_esk = <<>>
    /\ seg_reqs = <<>>
    /\ ps_initial = {}
    /\ ps_queue = <<>>
    /\ ps_collected = {}
    /\ all_items = <<>>
    /\ failed_segments = <<>>
    /\ ps_stopped = FALSE
    /\ ps_abort = FALSE
    /\ ps_warned = FALSE
    /\ ps_result = <<>>
    /\ ps_order = <<>>
    /\ seg_seen = <<>>

NextPar ==
    \/ ParCall
    \/ SegStart
    \/ SegResponse
    \/ SegError
    \/ BeginCollect
    \/ Collect
    \/ CollectEnd
    \/ ParExit

SpecPar == InitPar /\ [][NextPar]_vars

\* ------------------------------------------------------------------------
\* C4
\* ------------------------------------------------------------------------

\* C4: parallel_scan called with a limit never returns more than limit items
\* under any interleaving of segment completions, and with limit=50 over 4
\* segments that each yield more than their share it returns exactly 50.
C4_NeverMoreThanLimit ==
    (ps_pc = "returned" /\ ps_has_limit) =>
        /\ Len(ps_result) <= ps_limit
        /\ (ps_limit = 50 /\ ps_total = 4 /\ ps_env = BigTable) =>
              Len(ps_result) = 50

\* ------------------------------------------------------------------------
\* C6
\* ------------------------------------------------------------------------
ParEnded == ps_pc \in {"returned", "raised"}

\* Number of segment scans that failed.
NFailed == Cardinality({s \in Segments : fut[s] = "failed"})

RECURSIVE SumLen(_, _)
SumLen(f, S) ==
    IF S = {} THEN 0
    ELSE LET s == CHOOSE x \in S : TRUE IN Len(f[s]) + SumLen(f, S \ {s})

\* r holds the items of the successful segments, each exactly once.
IsItemsOfSuccessful(r) ==
    LET ok == {s \in Segments : fut[s] = "done"} IN
    /\ Len(r) = SumLen(seg_items, ok)
    /\ \A s \in ok : \A i \in 1..Len(seg_items[s]) :
          \E j \in 1..Len(r) : r[j] = seg_items[s][i]

AbortIffMajorityFails ==
    /\ ps_pc = "raised" <=> 2 * NFailed > ps_total
    /\ (NFailed >= 1 /\ 2 * NFailed <= ps_total) =>
          /\ ps_pc = "returned"
          /\ ps_warned
          /\ IsItemsOfSuccessful(ps_result)

\* C6 (as claimed): parallel_scan aborts with a fatal error if and only if
\* more than half of its segment scans fail; when at least one but at most
\* half fail it returns the items of the successful segments, with a warning.
C6_AbortIffMajorityFails == ParEnded => AbortIffMajorityFails

\* C6 (amended): the same, for the calls that did not stop collecting because
\* the limit was reached; a call that stopped on the limit returns normally,
\* whatever the segments not yet collected do.
C6_AbortIffMajorityFailsUnlessLimitReached ==
    ParEnded =>
        /\ ~ps_stopped => AbortIffMajorityFails
        /\ ps_stopped => ps_pc = "returned"

\* A call that ran to the end of as_completed with a minority of failed
\* segments and returned a flagged partial result.
C6_Witness ==
    /\ ps_pc = "returned"
    /\ ~ps_stopped
    /\ NFailed >= 1
    /\ ps_warned
    /\ ps_result # <<>>

\* ------------------------------------------------------------------------
\* export_table_command
\* ------------------------------------------------------------------------
MaxCmdLimit == 1
MaxCmdPageLen == 1
MaxCmdRequests == 2
MaxParItems == 2

\* The client the command talks to.
CmdClient == [batches |-> SeqsUpTo(ItemIds, MaxCmdPageLen), maxreq |-> MaxCmdRequests]

\* Filters in the simple syntax handed to FilterBuilder; <<>> models None.
RawFilters ==
    { <<>>,
      <<"a", "=", "1">>,
      <<"b", "=", "1">>,
      <<"c", ">", "1", "AND", "a", "=", "2">>,
      <<"pk", "=", "1", "OR", "a", "=", "2">>,
      <<"a", "=", "1", "OR", "c", ">", "2">>,
      <<"status", "=", "1", "OR", "a", "=", "2">>,
      <<"pk", "=", "1", "OR", "(", "a", "=", "2", "AND", "c", ">", "3", ")">>,
      <<"(", "a", "=", "1">> }

\* Expressions given with --filter-values (placeholders written by the user).
ManualFilters ==
    { <<>>, <<"c", ">", ":val1">>, <<"info", ".", "a", "=", ":val1">> }

ManualKeyConditions == { <<>>, <<"pk", "=", ":val0">> }

\* The tables of the model: table_info as get_table_info returns it.
Tables ==
    << [hash |-> "pk",
        gsis |-> << [name |-> "g1", status |-> "ACTIVE", hash |-> "a"],
                    [name |-> "g2", status |-> "CREATING", hash |-> "b"],
                    [name |-> "g3", status |-> "ACTIVE", hash |-> "status"] >>],
       [hash |-> "a",
        gsis |-> << [name |-> "ga", status |-> "ACTIVE", hash |-> "a"] >>] >>

TableStatuses == {"ACTIVE", "CREATING", "MISSING"}

AutoParallelItems == 100000

ManySegmentsItems == 1000000

MoreSegmentsItems == 500000

DefaultSegments == 4

SegmentsHuge == 16

SegmentsLarge == 12

SegmentsMedium == 8

LargeExportItems == 10000

LongExportItems == 1000000

QueryBuffer == 100

\* ItemCount values on both sides of every threshold.
ItemCounts == {1000, 200000, 600000, 2000000}

\* The stored template the runs can name.
StoredTemplate == [has_limit |-> TRUE, limit |-> MaxCmdLimit, filter |-> <<>>,
                   key_condition |-> <<>>, index |-> "", has_output |-> FALSE]

\* A table is accepted when describe_table answers with a status other
\* than "not found".
validate_table_exists_unless_missing(status) == status # "MISSING"

\* validate_table_exists: ACTIVE only; "MISSING" models the
\* ResourceNotFoundException of describe_table.
validate_table_exists(status) == status = "ACTIVE"

\* int(limit * 1.5 / len(query_configs)) + 100
limit_per_query(limit, n) == ((3 * limit) \div (2 * n)) + QueryBuffer

\* The de-duplication key of an item: its primary key, which is what
\* identifies an item of the model.
item_key(item) == item

\* `for item in query_items:` of the MultiQuery branch, with its `break`.
RECURSIVE dedup_extend(_, _, _, _, _)
dedup_extend(items, seen, query_items, has_limit, limit) ==
    IF query_items = <<>> THEN [items |-> items, seen |-> seen]
    ELSE LET item == Head(query_items) IN
         IF item_key(item) \in seen
         THEN dedup_extend(items, seen, Tail(query_items), has_limit, limit)
         ELSE LET items2 == Append(items, item)
                  seen2 == seen \cup {item_key(item)}
              IN IF limit_reached(has_limit, limit, Len(items2))
                 THEN [items |-> items2, seen |-> seen2]
                 ELSE dedup_extend(items2, seen2, Tail(query_items),
                                   has_limit, limit)

\* query_configs built from indexed_attrs
RECURSIVE build_query_configs(_)
build_query_configs(indexed) ==
    IF indexed = <<>> THEN <<>>
    ELSE <<[key_condition |-> <<Head(indexed).attr_ref, "=", Head(indexed).value_ref>>,
            index_name |-> Head(indexed).index_name,
            key_attribute |-> Head(indexed).key_attribute]>>
         \o build_query_configs(Tail(indexed))

\* The auto-adjusted number of segments.
auto_segments(segments, item_count) ==
    IF segments # DefaultSegments THEN segments
    ELSE IF item_count > ManySegmentsItems THEN SegmentsHuge
    ELSE IF item_count > MoreSegmentsItems THEN SegmentsLarge
    ELSE SegmentsMedium

NotRead == [table |-> 0, table_status |-> "", item_count |-> -1]

Invocations ==
    [dry_run : BOOLEAN, yes : BOOLEAN, has_limit : BOOLEAN, limit : 0..MaxCmdLimit,
     filter : RawFilters, filter_values : {FALSE}, key_condition : {<<>>},
     index : {""}, parallel_scan : BOOLEAN, segments : {2, DefaultSegments},
     has_output : {TRUE}, use_template : BOOLEAN, save_template : BOOLEAN]
    \cup
    [dry_run : BOOLEAN, yes : BOOLEAN, has_limit : BOOLEAN, limit : 0..MaxCmdLimit,
     filter : ManualFilters, filter_values : {TRUE},
     key_condition : ManualKeyConditions,
     index : {""}, parallel_scan : BOOLEAN, segments : {2, DefaultSegments},
     has_output : {TRUE}, use_template : BOOLEAN, save_template : BOOLEAN]

\* The locals as the function is entered: the arguments.
EnterLocals(a) ==
    [has_limit |-> a.has_limit, limit |-> a.limit, filter |-> a.filter,
     names |-> <<>>, key_condition |-> a.key_condition, index |-> a.index,
     has_output |-> a.has_output, segments |-> a.segments,
     use_query |-> FALSE, use_parallel |-> FALSE, multi_query_mode |-> FALSE,
     query_configs |-> <<>>, detected |-> [kind |-> "skipped"],
     strategy |-> "", reported |-> "", qidx |-> 0, seen_keys |-> {},
     items |-> <<>>]

Init ==
    /\ PageIdle
    /\ ParIdle
    /\ AuxIdle
    /\ pc = "start"
    /\ args \in Invocations
    /\ args.has_limit = (args.limit # 0)
    /\ loc = EnterLocals(args)
    /\ env = NotRead
    /\ files_written = {}
    /\ cmd_requests = 0
    /\ exit_code = -1
    /\ exit_at = "none"
    /\ throttled = 0
    /\ retries = 0

\* Scan/Query requests issued so far, those of the running call included.
ApiCalls == cmd_requests + Len(pg_sent)

\* sys.exit(code), a `return`, or the end of the function.
Exit(code, at) ==
    /\ pc' = "exit"
    /\ exit_code' = code
    /\ exit_at' = at

\* exporter.scan_table(...) / exporter.query_table(...) is entered.
StartCall(op, has_limit, limit) ==
    /\ pg_pc' = "loop"
    /\ pg_op' = op
    /\ pg_has_limit' = has_limit
    /\ pg_limit' = limit
    /\ pg_items' = <<>>
    /\ pg_esk' = 0
    /\ pg_sent' = <<>>
    /\ pg_pages' = <<>>
    /\ pg_err' = "none"
    /\ pg_env' = CmdClient

\* The call is over: its requests are on the account of the command.
EndCall ==
    /\ cmd_requests' = cmd_requests + Len(pg_sent)
    /\ pg_pc' = "idle"
    /\ pg_op' = "scan"
    /\ pg_has_limit' = FALSE
    /\ pg_limit' = 0
    /\ pg_items' = <<>>
    /\ pg_esk' = 0
    /\ pg_sent' = <<>>
    /\ pg_pages' = <<>>
    /\ pg_err' = "none"
    /\ pg_env' = NoClient

Throughput == "ProvisionedThroughputExceededException"

\* Lines 236-274: ExportConfigManager() creates the config file when it is
\* absent, then the template is loaded and merged under the arguments.
CmdStart ==
    /\ pc = "start"
    /\ \E config_exists \in BOOLEAN, has_template \in BOOLEAN :
        /\ has_template => config_exists
        /\ files_written' = IF config_exists THEN files_written
                            ELSE files_written \cup {"config"}
        /\ IF args.use_template /\ ~has_template
           THEN Exit(1, "template") /\ UNCHANGED loc
           ELSE /\ pc' = "validate"
                /\ UNCHANGED <<exit_code, exit_at>>
                /\ loc' =
                     IF ~args.use_template THEN loc
                     ELSE LET t == StoredTemplate
                              own == Truthy(loc.has_limit, loc.limit)
                          IN [loc EXCEPT
                               !.has_output = IF @ THEN @ ELSE t.has_output,
                               !.has_limit = IF own THEN @ ELSE t.has_limit,
                               !.limit = IF own THEN @ ELSE t.limit,
                               !.filter = IF @ # <<>> THEN @ ELSE t.filter,
                               !.key_condition =
                                   IF @ # <<>> THEN @ ELSE t.key_condition,
                               !.index = IF @ # "" THEN @ ELSE t.index]
    /\ UNCHANGED <<args, env, cmd_requests, throttled, retries>>
    /\ UNCHANGED <<pgvars, psvars, auxvars>>

\* Lines 276-283: describe_table, then sys.exit(1) unless the table is there
\* and ACTIVE.
CmdValidate ==
    /\ pc = "validate"
    /\ \E status \in TableStatuses :
        /\ env' = [env EXCEPT !.table_status = status]
        /\ IF validate_table_exists(status)
           THEN pc' = "prepare" /\ UNCHANGED <<exit_code, exit_at>>
           ELSE Exit(1, "validate")
    /\ UNCHANGED <<args, loc, files_written, cmd_requests, throttled, retries>>
    /\ UNCHANGED <<pgvars, psvars, auxvars>>

\* Lines 285-327: the exporter is built, the size estimate printed, and a
\* filter in the simple syntax compiled by FilterBuilder.
CmdPrepare ==
    /\ pc = "prepare"
    /\ IF loc.filter # <<>> /\ ~args.filter_values
       THEN LET r == build_filter(loc.filter) IN
            IF r.ok
            THEN /\ loc' = [loc EXCEPT !.filter = r.expr, !.names = r.names]
                 /\ pc' = "detect"
                 /\ UNCHANGED <<exit_code, exit_at>>
            ELSE Exit(1, "filter") /\ UNCHANGED loc
       ELSE /\ pc' = "detect"
            /\ UNCHANGED <<loc, exit_code, exit_at>>
    /\ UNCHANGED <<args, env, files_written, cmd_requests, throttled, retries>>
    /\ UNCHANGED <<pgvars, psvars, auxvars>>

\* The locals after lines 343-402, given what the advisor returned.
apply_detection(l, d, compiled) ==
    IF d.kind = "or"
    THEN IF can_multi_query(compiled, d.indexed_attributes)
         THEN [l EXCEPT !.detected = d,
                        !.query_configs = build_query_configs(d.indexed_attributes),
                        !.multi_query_mode = TRUE,
                        !.use_query = TRUE]
         ELSE [l EXCEPT !.detected = d]
    ELSE IF d.kind = "query"
    THEN [l EXCEPT !.detected = d,
                   !.index = IF d.index_name # "" THEN d.index_name ELSE @,
                   !.key_condition = d.key_condition,
                   !.use_query = TRUE,
                   !.filter = d.remaining_filter]
    ELSE [l EXCEPT !.detected = d]

\* Lines 329-402: the choice between Query, MultiQuery and Scan.
CmdDetect ==
    /\ pc = "detect"
    /\ LET l == [loc EXCEPT !.use_query = (loc.key_condition # <<>>),
                            !.use_parallel = args.parallel_scan]
       IN IF ~l.use_query /\ l.filter # <<>> /\ l.index = ""
          THEN \E t \in 1..Len(Tables) :
                  /\ env' = [env EXCEPT !.table = t]
                  /\ loc' = apply_detection(
                              l, detect_usable_index(l.filter, l.names, Tables[t]),
                              l.filter)
          ELSE loc' = l /\ UNCHANGED env
    /\ pc' = "auto"
    /\ UNCHANGED <<args, files_written, cmd_requests, exit_code, exit_at,
                   throttled, retries>>
    /\ UNCHANGED <<pgvars, psvars, auxvars>>

\* Lines 403-419: parallel scan is switched on for a large table.
CmdAutoParallel ==
    /\ pc = "auto"
    /\ IF ~loc.use_query /\ ~args.dry_run
       THEN \E item_count \in ItemCounts :
               /\ env' = [env EXCEPT !.item_count = item_count]
               /\ loc' = IF item_count > AutoParallelItems /\ ~loc.use_parallel
                         THEN [loc EXCEPT
                                 !.use_parallel = TRUE,
                                 !.segments = auto_segments(@, item_count)]
                         ELSE loc
       ELSE UNCHANGED <<env, loc>>
    /\ pc' = "dispatch"
    /\ UNCHANGED <<args, files_written, cmd_requests, exit_code, exit_at,
                   throttled, retries>>
    /\ UNCHANGED <<pgvars, psvars, auxvars>>

\* The limit handed to each branch Query: None unless a limit is set.
branch_limit(l) ==
    IF Truthy(l.has_limit, l.limit)
    THEN [has |-> TRUE, limit |-> limit_per_query(l.limit, Len(l.query_configs))]
    ELSE [has |-> FALSE, limit |-> 0]

\* Lines 421-565: the strategy is entered.  In a dry run the parallel
\* branch is skipped, the other three are not.
CmdDispatch ==
    /\ pc = "dispatch"
    /\ IF loc.multi_query_mode
       THEN /\ StartCall("query", branch_limit(loc).has, branch_limit(loc).limit)
            /\ loc' = [loc EXCEPT !.strategy = "multi", !.qidx = 1]
            /\ pc' = "multi"
       ELSE IF loc.use_query
       THEN /\ StartCall("query", loc.has_limit, loc.limit)
            /\ loc' = [loc EXCEPT !.strategy = "query"]
            /\ pc' = "call"
       ELSE IF loc.use_parallel /\ ~args.dry_run
       THEN /\ UNCHANGED pgvars
            /\ loc' = [loc EXCEPT !.strategy = "parallel"]
            /\ pc' = "parallel"
       ELSE /\ StartCall("scan", loc.has_limit, loc.limit)
            /\ loc' = [loc EXCEPT !.strategy = "scan"]
            /\ pc' = "call"
    /\ UNCHANGED <<args, env, files_written, cmd_requests, exit_code, exit_at,
                   throttled, retries>>
    /\ UNCHANGED <<psvars, auxvars>>

\* Lines 527-538 and 555-565: query_table / scan_table returned.
CmdCallReturned ==
    /\ pc = "call"
    /\ pg_pc = "done"
    /\ loc' = [loc EXCEPT !.items = pg_items]
    /\ pc' = "after"
    /\ EndCall
    /\ UNCHANGED <<args, env, files_written, exit_code, exit_at, throttled,
                   retries>>
    /\ UNCHANGED <<psvars, auxvars>>

\* The ClientError of scan_table / query_table reaches `except ClientError`
\* of the command (lines 694-698), whatever its code: sys.exit(1).
CmdCallRaised ==
    /\ pc = "call"
    /\ pg_pc = "raised"
    /\ throttled' = IF pg_err = Throughput THEN throttled + 1 ELSE throttled
    /\ Exit(1, "aws_error")
    /\ EndCall
    /\ UNCHANGED <<args, loc, env, files_written, retries>>
    /\ UNCHANGED <<psvars, auxvars>>

\* Lines 455-484 (first attempt) and 496-514 (retry): the items of a branch
\* are merged; the first attempt stops the loop over the branches once the
\* limit is reached, the retry path has no such test.  After the last
\* branch, lines 518-525.
CmdBranchReturned ==
    /\ pc \in {"multi", "multi_retry"}
    /\ pg_pc = "done"
    /\ LET r == dedup_extend(loc.items, loc.seen_keys, pg_items,
                             loc.has_limit, loc.limit)
           stop == /\ pc = "multi"
                   /\ limit_reached(loc.has_limit, loc.limit, Len(r.items))
       IN IF stop \/ loc.qidx = Len(loc.query_configs)
          THEN /\ loc' = [loc EXCEPT
                            !.items = apply_global_limit(r.items, loc.has_limit,
                                                         loc.limit),
                            !.seen_keys = r.seen]
               /\ pc' = "after"
               /\ EndCall
          ELSE /\ loc' = [loc EXCEPT !.items = r.items, !.seen_keys = r.seen,
                                     !.qidx = @ + 1]
               /\ pc' = "multi"
               /\ cmd_requests' = cmd_requests + Len(pg_sent)
               /\ StartCall("query", branch_limit(loc).has, branch_limit(loc).limit)
    /\ UNCHANGED <<args, env, files_written, exit_code, exit_at, throttled,
                   retries>>
    /\ UNCHANGED <<psvars, auxvars>>

\* Lines 486-516: a throughput error of a branch Query is answered by one
\* more query_table call for the branch; any other error, and any error of
\* that second call, leaves through `except ClientError` of the command.
CmdBranchRaised ==
    /\ pc \in {"multi", "multi_retry"}
    /\ pg_pc = "raised"
    /\ throttled' = IF pg_err = Throughput THEN throttled + 1 ELSE throttled
    /\ IF pc = "multi" /\ pg_err = Throughput
       THEN /\ retries' = retries + 1
            /\ pc' = "multi_retry"
            /\ cmd_requests' = cmd_requests + Len(pg_sent)
            /\ StartCall("query", branch_limit(loc).has, branch_limit(loc).limit)
            /\ UNCHANGED <<exit_code, exit_at>>
       ELSE /\ Exit(1, "aws_error")
            /\ EndCall
            /\ UNCHANGED retries
    /\ UNCHANGED <<args, loc, env, files_written>>
    /\ UNCHANGED <<psvars, auxvars>>

\* Lines 539-554: scanner.parallel_scan(...) as the command sees it: it
\* returns a list cut to the limit, or raises RuntimeError, caught at line
\* 702.  Every segment has issued a Scan.  Throughput errors of segments
\* end inside parallel_scan as failed segments and never reach the command.
CmdParallelScan ==
    /\ pc = "parallel"
    /\ cmd_requests' = cmd_requests + loc.segments
    /\ \E res \in SeqsUpTo(ItemIds, MaxParItems), raised \in BOOLEAN :
        IF raised
        THEN Exit(1, "error") /\ UNCHANGED loc
        ELSE /\ loc' = [loc EXCEPT
                          !.items = apply_global_limit(res, loc.has_limit, loc.limit)]
             /\ pc' = "after"
             /\ UNCHANGED <<exit_code, exit_at>>
    /\ UNCHANGED <<args, env, files_written, throttled, retries>>
    /\ UNCHANGED <<pgvars, psvars, auxvars>>

\* The strategy the dry-run report names.
reported_strategy(l) ==
    IF l.multi_query_mode THEN "multi"
    ELSE IF l.use_query THEN "query"
    ELSE IF l.use_parallel THEN "parallel"
    ELSE "scan"

\* Lines 567-605: nothing found, the dry-run report, the confirmation of a
\* large export.
CmdAfterItems ==
    /\ pc = "after"
    /\ IF loc.items = <<>>
       THEN Exit(0, "empty") /\ UNCHANGED loc
       ELSE IF args.dry_run
       THEN /\ Exit(0, "dry_run")
            /\ loc' = [loc EXCEPT !.reported = reported_strategy(loc)]
       ELSE \E confirmed \in BOOLEAN :
              IF ~args.yes /\ Len(loc.items) > LargeExportItems /\ ~confirmed
              THEN Exit(0, "cancelled") /\ UNCHANGED loc
              ELSE /\ pc' = "probe"
                   /\ UNCHANGED <<loc, exit_code, exit_at>>
    /\ UNCHANGED <<args, env, files_written, cmd_requests, throttled, retries>>
    /\ UNCHANGED <<pgvars, psvars, auxvars>>

\* Lines 607-626: the output name is fixed and the directory probed by
\* creating and deleting ".<name>.test".
CmdProbe ==
    /\ pc = "probe"
    /\ \E writable \in BOOLEAN :
        IF writable
        THEN /\ files_written' = files_written \cup {"probe"}
             /\ pc' = "export"
             /\ UNCHANGED <<exit_code, exit_at>>
        ELSE /\ Exit(1, "probe")
             /\ UNCHANGED files_written
    /\ loc' = [loc EXCEPT !.has_output = TRUE]
    /\ UNCHANGED <<args, env, cmd_requests, throttled, retries>>
    /\ UNCHANGED <<pgvars, psvars, auxvars>>

\* Lines 628-692: the warning about a long export, the export itself and
\* the saving of the template.
CmdExport ==
    /\ pc = "export"
    /\ \E item_count \in ItemCounts, confirmed \in BOOLEAN :
        LET asked == ~args.yes /\ ~args.dry_run /\ ~Truthy(loc.has_limit, loc.limit)
        IN /\ env' = IF asked THEN [env EXCEPT !.item_count = item_count] ELSE env
           /\ IF asked /\ item_count > LongExportItems /\ ~confirmed
              THEN /\ Exit(0, "cancelled")
                   /\ UNCHANGED files_written
              ELSE /\ Exit(0, "done")
                   /\ files_written' =
                        files_written \cup {"output"}
                          \cup (IF args.save_template THEN {"config"} ELSE {})
    /\ UNCHANGED <<args, loc, cmd_requests, throttled, retries>>
    /\ UNCHANGED <<pgvars, psvars, auxvars>>

Next ==
    \/ CmdStart
    \/ CmdValidate
    \/ CmdPrepare
    \/ CmdDetect
    \/ CmdAutoParallel
    \/ CmdDispatch
    \/ PageResponse
    \/ PageError
    \/ CmdCallReturned
    \/ CmdCallRaised
    \/ CmdBranchReturned
    \/ CmdBranchRaised
    \/ CmdParallelScan
    \/ CmdAfterItems
    \/ CmdProbe
    \/ CmdExport

Spec == Init /\ [][Next]_vars

\* ------------------------------------------------------------------------
\* C1, C2
\* ------------------------------------------------------------------------

\* C1: when the export command runs with dry_run=true, no Scan or Query
\* request is ever issued, whatever the other options are.
C1_DryRunIssuesNoRequest == args.dry_run => ApiCalls = 0

\* C2: when the export command runs with dry_run=true, no file is written
\* during the whole invocation: no output file, no probe file, no .meta
\* sidecar, no template/config file.
C2_DryRunWritesNoFile == args.dry_run => files_written = {}

\* ------------------------------------------------------------------------
\* C5
\* ------------------------------------------------------------------------

\* C5: a throughput-exceeded error on a Scan or Query page is recovered, in
\* every strategy, by exactly one retry; only the failure of the retry ends
\* the export.  So the first such error of a run is always followed by a
\* retry, and there are never more retries than errors.
C5_ThroughputErrorRetriedOnce ==
    /\ throttled >= 1 => retries >= 1
    /\ retries <= throttled

\* ------------------------------------------------------------------------
\* C7
\* ------------------------------------------------------------------------

\* C7: an output path that is not writable is detected by the writability
\* probe, and the run aborted with a non-zero exit, before any Scan or Query
\* request has been issued.
C7_UnwritableFoundBeforeAnyRequest ==
    exit_at = "probe" => (exit_code # 0 /\ ApiCalls = 0)

\* ------------------------------------------------------------------------
\* C8
\* ------------------------------------------------------------------------

\* C8: if the table does not exist or its status is not ACTIVE, the command
\* exits non-zero without ever issuing a Scan or Query request and without
\* writing an output file.
C8_NoActiveTableNoExport ==
    env.table_status \in {"CREATING", "MISSING"} =>
        /\ pc = "exit"
        /\ exit_code > 0
        /\ ApiCalls = 0
        /\ "output" \notin files_written

C8_Witness ==
    /\ env.table_status \in {"CREATING", "MISSING"}
    /\ exit_at = "validate"
    /\ exit_code = 1

\* ------------------------------------------------------------------------
\* C9
\* ------------------------------------------------------------------------

\* The positions of the OR operators at parenthesis depth 0.
TopLevelOrs(expr) ==
    {i \in 1..Len(expr) :
        expr[i] \in OrLexemes /\ count_parentheses(SubSeq(expr, 1, i - 1)) = 0}

\* The first and the last lexeme are a pair of parentheses around the rest.
Wrapped(expr) ==
    /\ Len(expr) >= 2
    /\ expr[1] = "(" /\ expr[Len(expr)] = ")"
    /\ \A i \in 1..(Len(expr) - 1) : count_parentheses(SubSeq(expr, 1, i)) > 0

Unwrapped(expr) == IF Wrapped(expr) THEN SubSeq(expr, 2, Len(expr) - 1) ELSE expr

\* The OR-branches of a filter.
OrBranches(expr) ==
    LET e == Unwrapped(expr)
        cuts == TopLevelOrs(e)
        start(i) == IF \E j \in cuts : j < i
                    THEN 1 + CHOOSE j \in cuts :
                                 j < i /\ \A k \in cuts : k < i => k <= j
                    ELSE 1
    IN {SubSeq(e, start(i), i - 1) : i \in cuts \cup {Len(e) + 1}}

\* The HASH keys of the main table and of the active GSIs.
IndexedKeys(t) ==
    {t.hash} \cup {t.gsis[i].hash : i \in {j \in 1..Len(t.gsis) :
                                              t.gsis[j].status = "ACTIVE"}}

\* A branch that is one equality on an indexed attribute and nothing else.
IsIndexedEquality(branch, names, t) ==
    LET b == Unwrapped(branch) IN
    /\ Len(b) = 3
    /\ b[2] = "="
    /\ b[3] \in ValueRefs
    /\ \E k \in IndexedKeys(t) : resolve_attr(b[1], names) = <<k>>

\* C9: MultiQuery is chosen only when every OR-branch of the filter is a
\* single equality on the HASH key of the main table or of an active GSI and
\* there are 2 to 5 branches; a filter with an OR of which some branch is not
\* such an equality is run as a Scan with the full filter.
C9_MultiQueryOnlyForIndexedEqualities ==
    (loc.detected.kind = "or") =>
        LET t == Tables[env.table]
            branches == OrBranches(loc.filter)
            simple == \A b \in branches : IsIndexedEquality(b, loc.names, t)
        IN /\ loc.multi_query_mode =>
                (simple /\ Len(loc.query_configs) >= 2
                        /\ Len(loc.query_configs) <= MaxQueries
                        /\ Len(loc.query_configs) = Cardinality(TopLevelOrs(
                                                      Unwrapped(loc.filter))) + 1)
           /\ ~simple => (~loc.multi_query_mode /\ ~loc.use_query)

\* ------------------------------------------------------------------------
\* C10
\* ------------------------------------------------------------------------

\* The filter holds an equality condition on the attribute `key`: the
\* attribute itself, not a step of a document path.
HasEqualityOn(expr, names, key) ==
    \E i \in 1..(Len(expr) - 2) :
        /\ resolve_attr(expr[i], names) = <<key>>
        /\ expr[i + 1] = "="
        /\ expr[i + 2] \in ValueRefs
        /\ i > 1 => expr[i - 1] # "."

\* The indexes the advisor's answer names.
NamedIndexes(d) ==
    IF d.kind = "query" THEN {d.index_name} \ {""}
    ELSE IF d.kind = "or"
    THEN {d.indexed_attributes[i].index_name :
             i \in 1..Len(d.indexed_attributes)} \ {""}
    ELSE {}

C10_Step ==
    /\ (pc = "detect" /\ pc' = "auto" /\ loc'.detected.kind # "skipped") =>
          LET d == loc'.detected
              t == Tables[env'.table]
          IN /\ \A x \in NamedIndexes(d) :
                  \E i \in 1..Len(t.gsis) :
                      /\ t.gsis[i].name = x
                      /\ t.gsis[i].status = "ACTIVE"
                      /\ HasEqualityOn(loc.filter, loc.names, t.gsis[i].hash)
             /\ (~\E k \in IndexedKeys(t) : HasEqualityOn(loc.filter, loc.names, k))
                    => (d.kind = "none" /\ ~loc'.use_query)
    /\ (pc = "dispatch" /\ pc' # "dispatch" /\ loc.detected.kind = "none") =>
          loc'.strategy \in {"scan", "parallel"}

\* C10: every index the advisor names, in a Query plan or in a MultiQuery
\* branch, is a GSI of the table whose status is ACTIVE and whose HASH key
\* has an equality condition in the filter; when no equality condition of
\* the filter is on a HASH key of the main table or of an active GSI, the
\* advisor returns nothing and the export uses Scan.
C10_AdvisorNamesOnlyUsableIndexes == [][C10_Step]_vars

\* ------------------------------------------------------------------------
\* FilterBuilder: build_filter calls on one instance (SpecFB)
\* The maps of the instance are objects: fb_heap[id] is the content of the
\* dict with reference id, and a result holds the references it was given.
\* ------------------------------------------------------------------------
MaxCalls == 3

\* The filters handed to build_filter.
FilterInputs ==
    {<<>>,
     <<"a", "=", "1">>,
     <<"status", "=", "2">>,
     <<"a", "=", "1", "AND", "b", "=", "2">>,
     <<"a", "=", "1", "OR", "b", "=", "2">>,
     <<"a", "=", "1", "AND", "b", "=", "2", "AND", "c", "=", "3">>,
     <<"a", "=", "1", "OR", "b", "=", "2", "OR", "c", "=", "3">>,
     <<"a", "=", "1", "AND", "b", "=", "2", "OR", "c", "=", "3">>,
     <<"a", "=", "1", "OR", "b", "=", "2", "AND", "c", "=", "3">>,
     <<"(", "a", "=", "1", "OR", "b", "=", "2", ")", "AND", "c", "=", "3">>,
     <<"a", "=", "1", "AND", "(", "b", "=", "2", "OR", "c", "=", "3", ")">>,
     <<"(", "a", "=", "1", ")", "OR", "(", "b", "=", "2", ")">>,
     <<"(", "a", "=", "1", "AND", "b", "=", "2", ")">>,
     <<"a", "=", "1", "OR", "order", "=", "2">>,
     <<"order", "=", "1", "OR", "a", "=", "2">>,
     <<"c", "=", "error", "OR", "a", "=", "1">>,
     <<"a", ">", "1", "AND", "b", "!=", "2">>,
     <<"a", "BETWEEN", "1", "AND", "3">>,
     <<"a", "BETWEEN", "1", "AND", "3", "AND", "b", "=", "2">>,
     <<"(", "a", "=", "1">>,
     <<"a", "=", "1", ")">>,
     <<"a", "=", "1", ")", "OR", "(", "b", "=", "2">>,
     <<"a", "=", "1", "AND", "(", ")">>,
     <<"a", "=", "1", "AND", "AND", "b", "=", "2">>,
     <<"a", "=", "1", "OR", "OR", "b", "=", "2">>,
     <<"a", "=", "=", "1">>,
     <<"a", ">", ">", "1">>,
     <<"a", "<", "<", "1">>}

\* FilterBuilder.__init__: counters at zero and two new, empty dicts.
new_builder(heap) ==
    [builder |-> [vc |-> 0, nc |-> 0,
                  values |-> Len(heap) + 1, names |-> Len(heap) + 2],
     heap |-> heap \o <<<<>>, <<>>>>]

\* A builder that keeps its counters and its maps from one call to the next.
keep_builder(b, heap) == [builder |-> b, heap |-> heap]

\* build_filter, after validation: counters back to zero and two new dicts
\* assigned to the fields.
reset_builder(b, heap) == new_builder(heap)

\* FilterBuilder.build_filter on the instance b: the tuple it returns
\* (the maps by reference), or the ValueError, and the instance afterwards.
builder_call(b, heap, filter_str) ==
    IF filter_str = <<>>
    THEN [result |-> [filter |-> filter_str, ok |-> TRUE, expr |-> <<>>,
                      values |-> Len(heap) + 1, names |-> Len(heap) + 2],
          builder |-> b,
          heap |-> heap \o <<<<>>, <<>>>>]
    ELSE IF ~validate_syntax(filter_str)
    THEN [result |-> [filter |-> filter_str, ok |-> FALSE, expr |-> <<>>,
                      values |-> 0, names |-> 0],
          builder |-> b,
          heap |-> heap]
    ELSE LET fresh == reset_builder(b, heap)
             fb == fresh.builder
             r == process_expression(filter_str,
                      [vc |-> fb.vc, nc |-> fb.nc,
                       values |-> fresh.heap[fb.values],
                       names |-> fresh.heap[fb.names]])
         IN [result |-> [filter |-> filter_str, ok |-> TRUE, expr |-> r.expr,
                         values |-> fb.values, names |-> fb.names],
             builder |-> [fb EXCEPT !.vc = r.st.vc, !.nc = r.st.nc],
             heap |-> [fresh.heap EXCEPT ![fb.values] = r.st.values,
                                         ![fb.names] = r.st.names]]

\* One build_filter call on the instance.
FbCall ==
    /\ fb_pc = "ready"
    /\ Len(fb_results) < MaxCalls
    /\ \E f \in FilterInputs :
          LET c == builder_call(fb_builder, fb_heap, f)
          IN /\ fb_results' = Append(fb_results, c.result)
             /\ fb_builder' = c.builder
             /\ fb_heap' = c.heap
    /\ UNCHANGED fb_pc
    /\ UNCHANGED <<pgvars, psvars, cmdvars, tplvars, nzvars, csvvars, cmvars, ddvars, advvars, rtvars, twvars, hsvars>>

InitFB ==
    /\ PageIdle
    /\ ParIdle
    /\ CmdIdle
    /\ HsIdle
    /\ TwIdle
    /\ RtIdle
    /\ AdvIdle
    /\ DdIdle
    /\ CmIdle
    /\ CsvIdle
    /\ NzIdle
    /\ TplIdle
    /\ fb_pc = "ready"
    /\ fb_builder = new_builder(<<>>).builder
    /\ fb_heap = new_builder(<<>>).heap
    /\ fb_results = <<>>

NextFB == FbCall

SpecFB == InitFB /\ [][NextFB]_vars

\* The maps a result returned, as they are now.
ResultValues(r) == IF r.values = 0 THEN <<>> ELSE fb_heap[r.values]

ResultNames(r) == IF r.names = 0 THEN <<>> ELSE fb_heap[r.names]

\* ---- C11 ----
\* The parentheses of a filter are balanced: no ")" without an open "(",
\* and none left open at the end.
Balanced(expr) ==
    /\ count_parentheses(expr) = 0
    /\ \A i \in 1..Len(expr) : count_parentheses(SubSeq(expr, 1, i)) >= 0

EmptyGroup(expr) == HasPair(expr, "(", ")")

DoubledOperator(expr) ==
    \/ HasPairIn(expr, AndLexemes, AndLexemes)
    \/ HasPairIn(expr, OrLexemes, OrLexemes)
    \/ HasPair(expr, "=", "=")
    \/ HasPair(expr, ">", ">")
    \/ HasPair(expr, "<", "<")

Malformed(expr) == ~Balanced(expr) \/ EmptyGroup(expr) \/ DoubledOperator(expr)

\* C11: build_filter fails with the invalid-syntax error for every filter
\* with unbalanced parentheses, an empty parenthesis group or consecutive
\* operators (AND AND, OR OR, = =, > >, < <), and accepts every other
\* non-empty filter.
C11_RejectsExactlyMalformed ==
    \A i \in 1..Len(fb_results) :
        fb_results[i].filter # <<>> =>
            (fb_results[i].ok <=> ~Malformed(fb_results[i].filter))

\* ---- C12 ----
\* The literal values of a filter, in order.
LiteralsOf(expr) ==
    LET F[i \in 0..Len(expr)] ==
            IF i = 0 THEN <<>>
            ELSE IF expr[i] \in Literals THEN Append(F[i - 1], <<expr[i]>>)
            ELSE F[i - 1]
    IN F[Len(expr)]

PlaceholdersIn(expr) ==
    {expr[i] : i \in 1..Len(expr)}
        \cap (Range(ValPlaceholders) \cup Range(NamePlaceholders))

KeysOf(values, names) ==
    {ValPlaceholders[i] : i \in 1..Len(values)}
        \cup {NamePlaceholders[i] : i \in 1..Len(names)}

\* C12: for a filter with balanced parentheses and no doubled operators,
\* every literal value of the input is replaced by exactly one fresh
\* placeholder :valN holding it, every placeholder of the returned
\* expression is a key of the returned maps and every key of the maps
\* occurs in the expression.
C12_EveryLiteralOnePlaceholder ==
    \A i \in 1..Len(fb_results) :
        LET r == fb_results[i]
        IN (r.ok /\ r.filter # <<>> /\ ~Malformed(r.filter)) =>
              /\ ResultValues(r) = LiteralsOf(r.filter)
              /\ \A x \in Range(r.expr) : x \notin Literals
              /\ PlaceholdersIn(r.expr) = KeysOf(ResultValues(r), ResultNames(r))
              /\ \A k \in 1..Len(ResultValues(r)) :
                    CountOf(r.expr, ValPlaceholders[k]) = 1

\* ---- C13 ----
\* The items a filter is read on: numbers for a, b and c, 0 elsewhere.
EvalItems == [{"a", "b", "c"} -> 1..3]

AttrValue(item, attr) == IF attr \in DOMAIN item THEN item[attr] ELSE 0

NumberOf(lit) ==
    CASE lit = "1" -> 1 [] lit = "2" -> 2 [] lit = "3" -> 3 [] OTHER -> -1

\* A comparison of a number attribute with a value text: a text that is
\* not a number is of another type, equal to no number.
Compare(x, op, text) ==
    LET isnum == Len(text) = 1 /\ NumberOf(text[1]) # -1
        v == NumberOf(text[1])
    IN IF ~isnum THEN op \in {"!=", "<>"}
       ELSE CASE op = "=" -> x = v
              [] op \in {"!=", "<>"} -> x # v
              [] op = ">" -> x > v
              [] op = "<" -> x < v
              [] op = ">=" -> x >= v
              [] op = "<=" -> x <= v
              [] OTHER -> FALSE

\* The text a lexeme stands for once the placeholders are substituted back.
Substituted(lx, maps, placeholders) ==
    IF \E k \in 1..Len(maps) : placeholders[k] = lx
    THEN maps[CHOOSE k \in 1..Len(maps) : placeholders[k] = lx]
    ELSE <<lx>>

TopLevelAnds(expr) ==
    {i \in 1..Len(expr) :
        expr[i] \in AndLexemes /\ count_parentheses(SubSeq(expr, 1, i - 1)) = 0}

\* The truth of an expression on an item with the usual precedence:
\* parentheses first, AND tighter than OR.  1 is true, 0 is false, 2 is
\* "not an expression".
RECURSIVE Holds(_, _, _, _)
Holds(expr, item, values, names) ==
    LET ors == TopLevelOrs(expr)
        ands == TopLevelAnds(expr)
        both(l, r, isOr) ==
            IF l = 2 \/ r = 2 THEN 2
            ELSE IF isOr THEN Max(l, r) ELSE Min(l, r)
        at(i, isOr) ==
            both(Holds(SubSeq(expr, 1, i - 1), item, values, names),
                 Holds(SubSeq(expr, i + 1, Len(expr)), item, values, names),
                 isOr)
    IN IF expr = <<>> THEN 2
       ELSE IF ors # {} THEN at(CHOOSE i \in ors : \A k \in ors : i <= k, TRUE)
       ELSE IF ands # {} THEN at(CHOOSE i \in ands : \A k \in ands : i <= k, FALSE)
       ELSE IF Wrapped(expr) THEN Holds(Unwrapped(expr), item, values, names)
       ELSE IF Len(expr) # 3 THEN 2
       ELSE LET attr == Substituted(expr[1], names, NamePlaceholders)
                text == Substituted(expr[3], values, ValPlaceholders)
            IN IF Len(attr) # 1 \/ attr[1] \notin AttrNames THEN 2
               ELSE IF expr[2] \notin Range(ComparisonOps) \cup {"<>"} THEN 2
               ELSE IF Compare(AttrValue(item, attr[1]), expr[2], text)
               THEN 1 ELSE 0

\* C13: the compiled expression, with its placeholders substituted back,
\* is equivalent to the input filter read with the usual precedence
\* (parentheses first, AND tighter than OR), for filters made of
\* comparisons combined with AND, OR and parentheses, each literal of
\* which has its own placeholder.
C13_RoundTripKeepsMeaning ==
    \A i \in 1..Len(fb_results) :
        LET r == fb_results[i]
        IN (r.ok /\ r.filter # <<>> /\ ~Malformed(r.filter)
                 /\ ~has_between(r.filter)
                 /\ ResultValues(r) = LiteralsOf(r.filter)) =>
              \A item \in EvalItems :
                  Holds(r.expr, item, ResultValues(r), ResultNames(r))
                      = Holds(r.filter, item, <<>>, <<>>)

\* ---- C14 ----
\* C14: in any sequence of build_filter calls on one instance (successful,
\* failing and empty ones, in any order) every successful call returns what
\* a fresh instance returns for the same filter: placeholders numbered from
\* :val0 and #attr0 and maps holding the entries of that call only; the maps
\* returned by an earlier call are not changed by the later calls, and no
\* two calls return the same map.
C14_EveryCallAsOnFreshInstance ==
    /\ \A i \in 1..Len(fb_results) :
          LET r == fb_results[i]
              fresh == build_filter(r.filter)
          IN /\ r.ok = fresh.ok
             /\ r.ok => /\ r.expr = fresh.expr
                        /\ ResultValues(r) = fresh.values
                        /\ ResultNames(r) = fresh.names
    /\ \A i, j \in 1..Len(fb_results) :
          (i # j /\ fb_results[i].ok /\ fb_results[j].ok) =>
              /\ fb_results[i].values # fb_results[j].values
              /\ fb_results[i].names # fb_results[j].names

\* A successful call with values and a name, then a failing call, then
\* another successful call with values.
C14_Witness ==
    /\ Len(fb_results) = 3
    /\ fb_results[1].ok
    /\ Len(ResultValues(fb_results[1])) >= 2
    /\ Len(ResultNames(fb_results[1])) >= 1
    /\ ~fb_results[2].ok
    /\ fb_results[3].ok
    /\ Len(ResultValues(fb_results[3])) >= 2

\* ------------------------------------------------------------------------
\* export_table_command, lines 239-274: template and command line (SpecTpl)
\* "" stands for None (an option not given, a key the template lacks),
\* -1 for a limit of None.
\* ------------------------------------------------------------------------
DefaultFormat == "csv"

DefaultMode == "strings"

\* What the user types: each option given with a value, or not given.
CommandLines ==
    [format : {"", "csv", "json"}, mode : {"", "strings", "flatten"},
     limit : {-1, 0, 1}, output : {"", "out.csv"}]

\* The templates ExportConfigManager.get_template returns.
Templates ==
    [format : {"", "csv", "json"}, mode : {"", "flatten", "normalize"},
     limit : {-1, 2}, output : {"", "tpl.csv"}]

\* The click declaration: an option not given arrives as its default.
click_params(cli) ==
    [format |-> IF cli.format = "" THEN DefaultFormat ELSE cli.format,
     mode |-> IF cli.mode = "" THEN DefaultMode ELSE cli.mode,
     limit |-> cli.limit,
     output |-> cli.output]

\* template.get(key, default)
template_get(value, default) == IF value = "" THEN default ELSE value

\* Lines 246-272.
apply_template(p, t) ==
    [output |-> IF p.output = "" THEN t.output ELSE p.output,
     format |-> IF p.format = DefaultFormat
                THEN template_get(t.format, DefaultFormat) ELSE p.format,
     limit |-> IF p.limit \in {-1, 0} THEN t.limit ELSE p.limit,
     mode |-> IF p.mode = DefaultMode
              THEN template_get(t.mode, DefaultMode) ELSE p.mode]

\* `devo dynamodb export T --use-template X ...`: the template is loaded and
\* merged into the parameters.
TplApply ==
    /\ tpl_pc = "args"
    /\ tpl_pc' = "merged"
    /\ tpl_params' = apply_template(tpl_params, tpl_template)
    /\ UNCHANGED <<tpl_cli, tpl_template>>
    /\ UNCHANGED <<pgvars, psvars, cmdvars, fbvars, nzvars, csvvars, cmvars, ddvars, advvars, rtvars, twvars, hsvars>>

InitTpl ==
    /\ PageIdle
    /\ ParIdle
    /\ CmdIdle
    /\ HsIdle
    /\ TwIdle
    /\ RtIdle
    /\ AdvIdle
    /\ DdIdle
    /\ CmIdle
    /\ CsvIdle
    /\ NzIdle
    /\ FbIdle
    /\ tpl_pc = "args"
    /\ tpl_cli \in CommandLines
    /\ tpl_template \in Templates
    /\ tpl_params = click_params(tpl_cli)

NextTpl == TplApply

SpecTpl == InitTpl /\ [][NextTpl]_vars

\* ---- C15 ----
TplOptions == {"format", "mode", "limit", "output"}

Given(cli, o) == IF o = "limit" THEN cli[o] # -1 ELSE cli[o] # ""

\* C15: with a template, every option given on the command line keeps the
\* value given, whatever it is (a value equal to the option's default
\* included); the template's values apply to the options not given only.
C15_CommandLineOverridesTemplate ==
    tpl_pc = "merged" =>
        \A o \in TplOptions :
            Given(tpl_cli, o) => tpl_params[o] = tpl_cli[o]

\* ------------------------------------------------------------------------
\* DynamoDBExporter._normalize_lists (SpecNorm)
\* An attribute value is [list |-> TRUE, elems |-> <<...>>] for a list and
\* [list |-> FALSE, elems |-> <<v>>] for any other value v.
\* ------------------------------------------------------------------------
MaxListLen == 3

NormAttrs == {"x", "y", "z"}

ListElems == {"p", "q"}

None == "None"

ListValue(elems) == [list |-> TRUE, elems |-> elems]

ScalarValue(v) == [list |-> FALSE, elems |-> <<v>>]

\* The values of an attribute of a converted item.
NormValues ==
    {ListValue(s) : s \in SeqsUpTo(ListElems, MaxListLen)}
        \cup {ScalarValue(v) : v \in {"s", None}}

NormItems == [NormAttrs -> NormValues]

\* list_fields: the attributes whose value is a list.
list_fields(data) == {k \in DOMAIN data : data[k].list}

\* len(max_list): the length of the longest list.
max_list_len(data) ==
    LET lens == {Len(data[k].elems) : k \in list_fields(data)}
    IN CHOOSE n \in lens : \A m \in lens : m <= n

\* A list that is too short gives None.
row_value_no_repeat(value, i) ==
    IF ~value.list THEN value.elems[1]
    ELSE IF i <= Len(value.elems) THEN value.elems[i]
    ELSE None

\* The value of one attribute in row i (counted from 1): lines 123-133.
row_value(value, i) ==
    IF ~value.list THEN value.elems[1]
    ELSE IF i <= Len(value.elems) THEN value.elems[i]
    ELSE IF value.elems # <<>> THEN value.elems[Len(value.elems)]
    ELSE None

\* The row an item without lists is returned as.
plain_row(data) == [k \in DOMAIN data |-> data[k].elems[1]]

normalize_lists(data) ==
    IF list_fields(data) = {} THEN <<plain_row(data)>>
    ELSE [i \in 1..max_list_len(data) |->
             [k \in DOMAIN data |-> row_value(data[k], i)]]

NzCall ==
    /\ nz_pc = "call"
    /\ nz_pc' = "done"
    /\ nz_rows' = normalize_lists(nz_data)
    /\ UNCHANGED nz_data
    /\ UNCHANGED <<pgvars, psvars, cmdvars, fbvars, tplvars, csvvars, cmvars, ddvars, advvars, rtvars, twvars, hsvars>>

InitNorm ==
    /\ PageIdle
    /\ ParIdle
    /\ CmdIdle
    /\ HsIdle
    /\ TwIdle
    /\ RtIdle
    /\ AdvIdle
    /\ DdIdle
    /\ CmIdle
    /\ CsvIdle
    /\ FbIdle
    /\ TplIdle
    /\ nz_pc = "call"
    /\ nz_data \in NormItems
    /\ nz_rows = <<>>

NextNorm == NzCall

SpecNorm == InitNorm /\ [][NextNorm]_vars

\* ---- C16 ----
ListLens(data) == {Len(data[k].elems) : k \in list_fields(data)}

\* C16: an item with list-valued attributes is expanded into N rows, N the
\* length of its longest list: row i takes element i of each list, a
\* shorter non-empty list repeats its last element, an empty list gives
\* null and every other attribute is repeated unchanged in all N rows;
\* lists of lengths 3, 1 and 0 give exactly 3 rows, the single value in all
\* 3 and null in all 3.
C16_NormalizeExpandsToLongestList ==
    (nz_pc = "done" /\ list_fields(nz_data) # {}) =>
        /\ Len(nz_rows) \in ListLens(nz_data)
        /\ \A n \in ListLens(nz_data) : n <= Len(nz_rows)
        /\ \A i \in 1..Len(nz_rows) : \A k \in NormAttrs :
              LET v == nz_data[k]
              IN nz_rows[i][k] =
                    IF ~v.list THEN v.elems[1]
                    ELSE IF i <= Len(v.elems) THEN v.elems[i]
                    ELSE IF Len(v.elems) > 0 THEN v.elems[Len(v.elems)]
                    ELSE None
        /\ ListLens(nz_data) = {3, 1, 0} =>
              /\ Len(nz_rows) = 3
              /\ \A k \in NormAttrs : \A i \in 1..3 :
                    /\ Len(nz_data[k].elems) = 1 => nz_rows[i][k] = nz_data[k].elems[1]
                    /\ Len(nz_data[k].elems) = 0 => nz_rows[i][k] = None

\* Lists of lengths 3, 1 and 0 have been expanded.
C16_Witness ==
    /\ nz_pc = "done"
    /\ nz_data["x"] = ListValue(<<"p", "q", "p">>)
    /\ nz_data["y"] = ListValue(<<"q">>)
    /\ nz_data["z"] = ListValue(<<>>)
    /\ Len(nz_rows) = 3
    /\ nz_rows[3] = [x |-> "p", y |-> "q", z |-> None]

\* ------------------------------------------------------------------------
\* DynamoDBExporter.export_to_csv, mode "flatten" (SpecCsv)
\* A text (a key, a value, a column name) is the sequence of its
\* characters or words.  An item is the sequence of its entries in dict
\* order; an entry holds a text or a nested map.  The item list is kept as
\* runs [item, count] of equal consecutive items, so that its real length
\* is counted.
\* ------------------------------------------------------------------------
MaxRuns == 2

StreamingThreshold == 10000

SampleSize == 1000

RunLengths == {1, SampleSize, StreamingThreshold}

Separator == <<".">>

Whitespace == {" ", "\n"}

ScalarEntry(k, v) == [key |-> k, map |-> FALSE, value |-> v, entries |-> <<>>]

MapEntry(k, es) == [key |-> k, map |-> TRUE, value |-> <<>>, entries |-> es]

\* The converted items of the table.
CsvItems ==
    {<<ScalarEntry(<<"a">>, <<"u">>)>>,
     <<ScalarEntry(<<"a">>, <<"v">>)>>,
     <<ScalarEntry(<<"a">>, <<"u", " ", "\n", "v">>)>>,
     <<ScalarEntry(<<"a">>, <<"u">>), ScalarEntry(<<"c">>, <<"v">>)>>,
     <<ScalarEntry(<<"a">>, <<"u">>),
       MapEntry(<<"m">>, <<ScalarEntry(<<"b">>, <<"v">>)>>)>>,
     <<MapEntry(<<"m">>, <<ScalarEntry(<<"b">>, <<"u">>),
                          ScalarEntry(<<"c">>, <<"v">>)>>)>>,
     <<MapEntry(<<"m">>, <<ScalarEntry(<<"b">>, <<"u">>)>>),
       ScalarEntry(<<"m", ".", "b">>, <<"v">>)>>}

\* The (key, value) pairs _flatten_dict collects, in order.
RECURSIVE flatten_pairs(_, _)
flatten_pairs(data, parent_key) ==
    IF data = <<>> THEN <<>>
    ELSE LET e == Head(data)
             new_key == IF parent_key # <<>>
                        THEN parent_key \o Separator \o e.key ELSE e.key
         IN (IF e.map THEN flatten_pairs(e.entries, new_key)
             ELSE <<[key |-> new_key, value |-> e.value]>>)
            \o flatten_pairs(Tail(data), parent_key)

\* dict(items): a later pair replaces an earlier one with the same key.
dict_of(pairs) ==
    [k \in {pairs[i].key : i \in 1..Len(pairs)} |->
        pairs[CHOOSE i \in 1..Len(pairs) :
                 /\ pairs[i].key = k
                 /\ \A j \in (i + 1)..Len(pairs) : pairs[j].key # k].value]

flatten_dict(data) == dict_of(flatten_pairs(data, <<>>))

\* " ".join(value.split())
RECURSIVE normalize_whitespace(_, _)
normalize_whitespace(value, i) ==
    IF i > Len(value) THEN <<>>
    ELSE IF value[i] \notin Whitespace
    THEN <<value[i]>> \o normalize_whitespace(value, i + 1)
    ELSE IF /\ i > 1
            /\ value[i - 1] \notin Whitespace
            /\ \E j \in (i + 1)..Len(value) : value[j] \notin Whitespace
    THEN <<" ">> \o normalize_whitespace(value, i + 1)
    ELSE normalize_whitespace(value, i + 1)

format_value_for_csv(value) == normalize_whitespace(value, 1)

\* csv.DictWriter.writerow with extrasaction="ignore": a field the row
\* lacks is written empty, a key that is no field is left out.
write_row(fieldnames, item) ==
    LET flat == flatten_dict(item)
    IN [f \in fieldnames |->
           IF f \in DOMAIN flat THEN format_value_for_csv(flat[f]) ELSE <<>>]

\* len(items)
RECURSIVE total_items(_)
total_items(runs) ==
    IF runs = <<>> THEN 0 ELSE Head(runs).count + total_items(Tail(runs))

\* The runs that reach into items[:n].
sample_runs(runs, n) ==
    {i \in 1..Len(runs) : total_items(SubSeq(runs, 1, i - 1)) < n}

\* all_keys of the runs in `which`
all_keys(runs, which) ==
    UNION {DOMAIN flatten_dict(runs[i].item) : i \in which}

\* export_to_csv(items, output_file, mode="flatten", streaming=...): the
\* file it leaves.
export_to_csv(runs, streaming) ==
    IF runs = <<>> THEN [written |-> FALSE, header |-> {}, rows |-> <<>>]
    ELSE LET stream == streaming \/ total_items(runs) > StreamingThreshold
             fieldnames ==
                 IF stream
                 THEN all_keys(runs, sample_runs(runs,
                                   Min(SampleSize, total_items(runs))))
                 ELSE all_keys(runs, 1..Len(runs))
         IN [written |-> TRUE,
             header |-> fieldnames,
             rows |-> [i \in 1..Len(runs) |->
                          [row |-> write_row(fieldnames, runs[i].item),
                           count |-> runs[i].count]]]

CsvExport ==
    /\ csv_pc = "call"
    /\ csv_pc' = "done"
    /\ csv_file' = export_to_csv(csv_items, csv_streaming)
    /\ UNCHANGED <<csv_items, csv_streaming>>
    /\ UNCHANGED <<pgvars, psvars, cmdvars, fbvars, tplvars, nzvars, cmvars, ddvars, advvars, rtvars, twvars, hsvars>>

CsvRuns == [item : CsvItems, count : RunLengths]

InitCsv ==
    /\ PageIdle
    /\ ParIdle
    /\ CmdIdle
    /\ HsIdle
    /\ TwIdle
    /\ RtIdle
    /\ AdvIdle
    /\ DdIdle
    /\ CmIdle
    /\ FbIdle
    /\ TplIdle
    /\ NzIdle
    /\ csv_pc = "call"
    /\ csv_items \in SeqsUpTo(CsvRuns, MaxRuns)
    /\ csv_streaming \in BOOLEAN
    /\ csv_file = NoArgs

NextCsv == CsvExport

SpecCsv == InitCsv /\ [][NextCsv]_vars

\* ---- C17 ----
\* The scalar values of an item with their dotted paths.
ScalarsOf(item) == Range(flatten_pairs(item, <<>>))

\* C17: the CSV written in flatten mode has one row per item and one column
\* per scalar attribute and per dotted path of a nested map, and reading it
\* back gives every scalar value of every item, up to the normalization of
\* whitespace: no value is dropped or replaced by another, whatever the
\* number of items, streaming or not.
C17_CsvRoundTrip ==
    (csv_pc = "done" /\ csv_items # <<>>) =>
        /\ csv_file.written
        /\ Len(csv_file.rows) = Len(csv_items)
        /\ \A i \in 1..Len(csv_items) :
              /\ csv_file.rows[i].count = csv_items[i].count
              /\ \A s \in ScalarsOf(csv_items[i].item) :
                    /\ s.key \in csv_file.header
                    /\ csv_file.rows[i].row[s.key]
                          = normalize_whitespace(s.value, 1)

\* ------------------------------------------------------------------------
\* commit (commands/commit_prompt.py) (SpecCommit)
\* Texts are sequences of words; "" and <<>> stand for None and "".
\* ------------------------------------------------------------------------
CommitFlags == [push : BOOLEAN, pull_request : BOOLEAN, add : BOOLEAN, all : BOOLEAN]

\* get_branch_name(): the branch, cut where the pattern can tell.
Branches ==
    {<<"main">>,
     <<"feature/", "NDT-", "456">>,
     <<"feature/", "NDT-", "456", "-login">>,
     <<"feature/", "TICKET-", "456">>,
     <<"bugfix/", "NDT-", "456">>}

Digits == {"456", "9"}

\* re.match(r"feature/NDT-(\d+)", branch_name): group 1, "" for no match.
ticket_number(branch_name) ==
    IF /\ Len(branch_name) >= 3
       /\ branch_name[1] = "feature/"
       /\ branch_name[2] = "NDT-"
       /\ branch_name[3] \in Digits
    THEN branch_name[3] ELSE ""

\* The answers of the agent: CommitMessageResponse.
Responses ==
    [type : {"feat"}, scope : {"api"},
     summary : {<<"add", "endpoint">>, <<"NDT-", "456", "add", "endpoint">>},
     details : {<<>>, <<"more">>}]

\* str(e) of the exceptions the agent call raises.
ErrorTexts ==
    {<<"NoCredentialsError", ":", "Unable", "to", "locate", "credentials">>,
     <<"Unable", "to", "locate", "credentials">>,
     <<"Some", "other", "error">>}

\* str(e) of subprocess.CalledProcessError
CalledProcessErrorText == <<"Command", "returned", "non-zero", "exit", "status">>

\* What the user types at click.prompt.
ManualMessages ==
    {<<"my", "message">>, <<"NDT-", "456", "my", "message">>,
     <<"NDT-", "9", "my", "message">>}

\* "{}({}): {}{}".format(type, scope, summary.strip(), details).strip()
format_message(response) ==
    <<response.type, "(", response.scope, ")", ":", " ">> \o response.summary
        \o (IF response.details = <<>> THEN <<>>
            ELSE <<"\n\n">> \o response.details)

\* Lines 175-176.
manual_with_ticket(number, manual_message) ==
    IF number # "" /\ "NDT-" \notin Range(manual_message)
    THEN <<" ", "NDT-", number, " ">> \o manual_message
    ELSE manual_message

\* The command goes on without staged changes.
no_staged_changes_ignored(diff_text) == FALSE

\* `if not diff_text`
no_staged_changes(diff_text) == diff_text = ""

\* The except branch, lines 196-202: the message printed.
error_message(msg) ==
    IF "NoCredentialsError" \in Range(msg) \/ "credentials" \in Range(msg)
    THEN <<"No AWS credentials found. Please configure your AWS CLI.">>
    ELSE <<"Error sending request:">> \o msg

Ran(cmd, arg) == [cmd |-> cmd, arg |-> arg]

NoEnv == [diff |-> "unread", branch |-> <<>>, ai |-> "none", error |-> <<>>,
          accepted |-> FALSE, manual |-> <<>>, generated |-> <<>>]

NoLoc == [push |-> FALSE, pull_request |-> FALSE, add |-> FALSE,
          ticket_number |-> "", commit_message |-> <<>>]

CmFinish(code) == cm_pc' = "done" /\ cm_exit' = code

\* The except branch taken with the exception text msg.
CmHandle(msg) ==
    /\ cm_out' = cm_out \cup {error_message(msg)}
    /\ CmFinish(0)

\* Lines 43-51: --all, and git add with check=True outside any try.
CmStart ==
    /\ cm_pc = "start"
    /\ LET all == cm_args.all
           add == cm_args.add \/ all
       IN /\ cm_loc' = [cm_loc EXCEPT !.add = add,
                                      !.push = cm_args.push \/ all,
                                      !.pull_request = cm_args.pull_request \/ all]
          /\ IF ~add
             THEN /\ cm_pc' = "diff"
                  /\ UNCHANGED <<cm_ran, cm_out, cm_exit>>
             ELSE /\ cm_ran' = Append(cm_ran, Ran("git add", <<>>))
                  /\ \E ok \in BOOLEAN :
                        IF ok
                        THEN /\ cm_pc' = "diff"
                             /\ cm_out' = cm_out \cup {<<"All changes added.">>}
                             /\ UNCHANGED cm_exit
                        ELSE /\ CmFinish(1)
                             /\ UNCHANGED cm_out
    /\ UNCHANGED <<cm_args, cm_env>>
    /\ UNCHANGED <<pgvars, psvars, cmdvars, fbvars, tplvars, nzvars, csvvars, ddvars, advvars, rtvars, twvars, hsvars>>

\* Lines 94-97.
CmDiff ==
    /\ cm_pc = "diff"
    /\ \E diff_text \in {"", "diff"} :
          /\ cm_env' = [cm_env EXCEPT !.diff = diff_text]
          /\ IF no_staged_changes(diff_text)
             THEN /\ cm_out' = cm_out \cup {<<"No staged changes found.">>}
                  /\ CmFinish(0)
             ELSE /\ cm_pc' = "context"
                  /\ UNCHANGED <<cm_out, cm_exit>>
    /\ cm_ran' = Append(cm_ran, Ran("git diff", <<>>))
    /\ UNCHANGED <<cm_args, cm_loc>>
    /\ UNCHANGED <<pgvars, psvars, cmdvars, fbvars, tplvars, nzvars, csvvars, ddvars, advvars, rtvars, twvars, hsvars>>

\* Lines 99-123: the branch, the ticket, git status and git log (a failure
\* of which is caught).
CmContext ==
    /\ cm_pc = "context"
    /\ \E branch_name \in Branches, status_ok \in BOOLEAN :
          /\ cm_env' = [cm_env EXCEPT !.branch = branch_name]
          /\ cm_loc' = [cm_loc EXCEPT !.ticket_number = ticket_number(branch_name)]
          /\ cm_ran' = cm_ran \o <<Ran("git rev-parse", <<>>), Ran("git status", <<>>)>>
                          \o (IF status_ok THEN <<Ran("git log", <<>>)>> ELSE <<>>)
    /\ cm_pc' = "ask"
    /\ UNCHANGED <<cm_args, cm_out, cm_exit>>
    /\ UNCHANGED <<pgvars, psvars, cmdvars, fbvars, tplvars, nzvars, csvvars, ddvars, advvars, rtvars, twvars, hsvars>>

\* Lines 157-164: the agent answers or raises.
CmAsk ==
    /\ cm_pc = "ask"
    /\ \/ \E e \in ErrorTexts :
             /\ cm_env' = [cm_env EXCEPT !.ai = "raised", !.error = e]
             /\ CmHandle(e)
             /\ UNCHANGED cm_loc
       \/ \E response \in Responses :
             /\ cm_env' = [cm_env EXCEPT !.ai = "answered",
                                         !.generated = format_message(response)]
             /\ cm_loc' = [cm_loc EXCEPT !.commit_message = format_message(response)]
             /\ cm_pc' = "confirm"
             /\ UNCHANGED <<cm_out, cm_exit>>
    /\ UNCHANGED <<cm_args, cm_ran>>
    /\ UNCHANGED <<pgvars, psvars, cmdvars, fbvars, tplvars, nzvars, csvvars, ddvars, advvars, rtvars, twvars, hsvars>>

\* Lines 166-178: the generated message accepted, or a manual one; git
\* commit with check=True inside the try.
CmConfirm ==
    /\ cm_pc = "confirm"
    /\ \E accepted \in BOOLEAN, manual \in ManualMessages, ok \in BOOLEAN :
          LET typed == IF accepted THEN <<>> ELSE manual
              message == IF accepted THEN cm_loc.commit_message
                         ELSE manual_with_ticket(cm_loc.ticket_number, manual)
          IN /\ cm_env' = [cm_env EXCEPT !.accepted = accepted, !.manual = typed]
             /\ cm_ran' = Append(cm_ran, Ran("git commit", message))
             /\ IF ok
                THEN /\ cm_pc' = "push"
                     /\ cm_out' = cm_out \cup
                            {IF accepted THEN <<"Commit message accepted">>
                             ELSE <<"Manual commit message accepted">>}
                     /\ UNCHANGED cm_exit
                ELSE CmHandle(CalledProcessErrorText)
    /\ UNCHANGED <<cm_args, cm_loc>>
    /\ UNCHANGED <<pgvars, psvars, cmdvars, fbvars, tplvars, nzvars, csvvars, ddvars, advvars, rtvars, twvars, hsvars>>

\* Lines 180-183.
CmPush ==
    /\ cm_pc = "push"
    /\ IF ~cm_loc.push
       THEN /\ cm_pc' = "pr"
            /\ UNCHANGED <<cm_ran, cm_out, cm_exit>>
       ELSE /\ cm_ran' = Append(cm_ran, Ran("git push", cm_env.branch))
            /\ \E ok \in BOOLEAN :
                  IF ok
                  THEN /\ cm_pc' = "pr"
                       /\ cm_out' = cm_out \cup {<<"Changes pushed">>}
                       /\ UNCHANGED cm_exit
                  ELSE CmHandle(CalledProcessErrorText)
    /\ UNCHANGED <<cm_args, cm_loc, cm_env>>
    /\ UNCHANGED <<pgvars, psvars, cmdvars, fbvars, tplvars, nzvars, csvvars, ddvars, advvars, rtvars, twvars, hsvars>>

\* Lines 185-195.
CmPullRequest ==
    /\ cm_pc = "pr"
    /\ IF ~cm_loc.pull_request
       THEN UNCHANGED <<cm_ran, cm_out>>
       ELSE \E has_remote \in BOOLEAN :
               IF has_remote
               THEN /\ cm_ran' = cm_ran \o <<Ran("git config", <<>>),
                                            Ran("webbrowser.open", cm_env.branch)>>
                    /\ UNCHANGED cm_out
               ELSE /\ cm_ran' = Append(cm_ran, Ran("git config", <<>>))
                    /\ cm_out' = cm_out \cup
                          {<<"Could not determine remote URL. Cannot open pull request.">>}
    /\ CmFinish(0)
    /\ UNCHANGED <<cm_args, cm_loc, cm_env>>
    /\ UNCHANGED <<pgvars, psvars, cmdvars, fbvars, tplvars, nzvars, csvvars, ddvars, advvars, rtvars, twvars, hsvars>>

InitCommit ==
    /\ PageIdle
    /\ ParIdle
    /\ CmdIdle
    /\ HsIdle
    /\ TwIdle
    /\ RtIdle
    /\ AdvIdle
    /\ DdIdle
    /\ FbIdle
    /\ TplIdle
    /\ NzIdle
    /\ CsvIdle
    /\ cm_pc = "start"
    /\ cm_args \in CommitFlags
    /\ cm_loc = NoLoc
    /\ cm_env = NoEnv
    /\ cm_ran = <<>>
    /\ cm_out = {}
    /\ cm_exit = -1

NextCommit ==
    \/ CmStart
    \/ CmDiff
    \/ CmContext
    \/ CmAsk
    \/ CmConfirm
    \/ CmPush
    \/ CmPullRequest

SpecCommit == InitCommit /\ [][NextCommit]_vars

\* ---- C18 ----
RanCmds == {cm_ran[i].cmd : i \in 1..Len(cm_ran)}

Irreversible == {"git commit", "git push", "webbrowser.open"}

\* C18: without staged changes, or when the call of the AI agent raises an
\* error, the command never runs git commit, git push or the browser for
\* the pull request; it prints 'No staged changes found.', the credentials
\* message or 'Error sending request: ...' and exits with code 0.
C18_NothingCommittedWithoutMessage ==
    /\ (cm_env.diff = "" \/ cm_env.ai = "raised") =>
          /\ RanCmds \cap Irreversible = {}
          /\ cm_pc = "done"
          /\ cm_exit = 0
    /\ cm_env.diff = "" => <<"No staged changes found.">> \in cm_out
    /\ cm_env.ai = "raised" =>
          IF cm_env.error \in {e \in ErrorTexts : "credentials" \in Range(e)}
          THEN <<"No AWS credentials found. Please configure your AWS CLI.">>
                   \in cm_out
          ELSE (<<"Error sending request:">> \o cm_env.error) \in cm_out

\* With --all on a ticket branch, the call of the agent has raised and the
\* command is over.
C18_Witness ==
    /\ cm_pc = "done"
    /\ cm_args.all
    /\ cm_env.ai = "raised"
    /\ cm_env.error = <<"Some", "other", "error">>
    /\ cm_env.branch = <<"feature/", "NDT-", "456">>

\* ---- C19 ----
\* The ticket identifier a feature branch carries; <<>> when it has none.
TicketOf(branch_name) ==
    IF Len(branch_name) >= 3 /\ branch_name[1] = "feature/"
    THEN <<branch_name[2], branch_name[3]>> ELSE <<>>

Contains(text, part) ==
    \E i \in 1..(Len(text) - Len(part) + 1) :
        SubSeq(text, i, i + Len(part) - 1) = part

EndsWith(text, part) ==
    /\ Len(part) <= Len(text)
    /\ SubSeq(text, Len(text) - Len(part) + 1, Len(text)) = part

\* C19: on a feature branch whose name carries a ticket identifier the
\* message passed to git commit contains that identifier: placed after
\* "type(scope):" when the generated message is accepted, put with the
\* manual text (which is kept) when the user types a message that lacks it;
\* on a branch without a ticket the message is committed unmodified.
C19_CommitMessageCarriesTicket ==
    \A i \in 1..Len(cm_ran) :
        cm_ran[i].cmd = "git commit" =>
            LET message == cm_ran[i].arg
                ticket == TicketOf(cm_env.branch)
            IN /\ (ticket # <<>> /\ cm_env.accepted) =>
                      /\ Contains(message, ticket)
                      /\ SubSeq(message, 1, 6) = SubSeq(cm_env.generated, 1, 6)
                      /\ SubSeq(message, 7, 8) = ticket
               /\ (ticket # <<>> /\ ~cm_env.accepted) =>
                      /\ Contains(message, ticket) \/ Contains(cm_env.manual, <<"NDT-">>)
                      /\ EndsWith(message, cm_env.manual)
               /\ ticket = <<>> =>
                      message = IF cm_env.accepted THEN cm_env.generated
                                ELSE cm_env.manual

\* ------------------------------------------------------------------------
\* export_table_command, lines 435-482: MultiQuery de-duplication with a
\* projection (SpecDedup)
\* The table has the key schema (pk HASH, sk RANGE).  A query returns the
\* projected items; `stored` remembers which item of the table each one is.
\* ------------------------------------------------------------------------
MaxKeyValue == 2

MaxBranchItems == 2

MaxDedupLimit == 2

primary_key_attrs == <<"pk", "sk">>

ItemAttrs == {"pk", "sk", "name"}

\* The items of the table: no two with the same primary key.
StoredItems == [pk : 1..MaxKeyValue, sk : 1..MaxKeyValue, name : {0}]

\* --attributes: the attributes a query returns; all of them without it.
Projections == {ItemAttrs, {"pk", "sk"}, {"pk", "name"}, {"name"}}

project(stored, projection) ==
    [stored |-> stored, item |-> [a \in projection |-> stored[a]]]

\* What one branch query returns: some items of the table, each once.
BranchResults ==
    {s \in SeqsUpTo(StoredItems, MaxBranchItems) :
        \A i, j \in 1..Len(s) : i # j => s[i] # s[j]}

\* item_key: the parts "attr=value" of the primary-key attributes the item
\* has, in the order of the key schema.
RECURSIVE key_parts(_, _)
key_parts(item, attrs) ==
    IF attrs = <<>> THEN <<>>
    ELSE (IF Head(attrs) \in DOMAIN item
          THEN <<<<Head(attrs), item[Head(attrs)]>>>> ELSE <<>>)
         \o key_parts(item, Tail(attrs))

projected_item_key(item) == key_parts(item, primary_key_attrs)

\* `for item in query_items:` with its `break`.
RECURSIVE dedup_query_items(_, _, _, _)
dedup_query_items(items, seen, query_items, limit) ==
    IF query_items = <<>> THEN [items |-> items, seen |-> seen]
    ELSE LET q == Head(query_items)
             k == projected_item_key(q.item)
         IN IF k \in seen
            THEN dedup_query_items(items, seen, Tail(query_items), limit)
            ELSE IF limit # 0 /\ Len(items) + 1 >= limit
            THEN [items |-> Append(items, q), seen |-> seen \cup {k}]
            ELSE dedup_query_items(Append(items, q), seen \cup {k},
                                   Tail(query_items), limit)

\* `for idx, query_config in enumerate(query_configs, 1):` with its `break`.
RECURSIVE run_queries(_, _, _, _)
run_queries(items, seen, results, limit) ==
    IF results = <<>> THEN items
    ELSE LET r == dedup_query_items(items, seen, Head(results), limit)
         IN IF limit # 0 /\ Len(r.items) >= limit THEN r.items
            ELSE run_queries(r.items, r.seen, Tail(results), limit)

DdRun ==
    /\ dd_pc = "call"
    /\ dd_pc' = "done"
    /\ dd_items' =
          run_queries(<<>>, {},
              [b \in 1..Len(dd_env.results) |->
                  [i \in 1..Len(dd_env.results[b]) |->
                      project(dd_env.results[b][i], dd_env.projection)]],
              dd_env.limit)
    /\ UNCHANGED dd_env
    /\ UNCHANGED <<pgvars, psvars, cmdvars, fbvars, tplvars, nzvars, csvvars, cmvars, advvars, rtvars, twvars, hsvars>>

InitDedup ==
    /\ PageIdle
    /\ ParIdle
    /\ CmdIdle
    /\ HsIdle
    /\ TwIdle
    /\ RtIdle
    /\ AdvIdle
    /\ FbIdle
    /\ TplIdle
    /\ NzIdle
    /\ CsvIdle
    /\ CmIdle
    /\ dd_pc = "call"
    /\ dd_env \in [projection : Projections, limit : 0..MaxDedupLimit,
                   results : [1..2 -> BranchResults]]
    /\ dd_items = <<>>

NextDedup == DdRun

SpecDedup == InitDedup /\ [][NextDedup]_vars

\* ---- C20 ----
PrimaryKey(stored) == <<stored.pk, stored.sk>>

\* C20: in MultiQuery mode the combined result holds no two items with the
\* same primary key, and every item a branch returned whose primary key was
\* not seen before is kept, up to the limit, for every projection: items
\* with different primary keys are never taken for duplicates.
C20_DedupByPrimaryKey ==
    dd_pc = "done" =>
        LET returned ==
                UNION {{PrimaryKey(dd_env.results[b][i]) :
                           i \in 1..Len(dd_env.results[b])} : b \in 1..2}
        IN /\ \A i, j \in 1..Len(dd_items) :
                 i # j => PrimaryKey(dd_items[i].stored)
                              # PrimaryKey(dd_items[j].stored)
           /\ Len(dd_items) = IF dd_env.limit # 0
                              THEN Min(dd_env.limit, Cardinality(returned))
                              ELSE Cardinality(returned)

\* ---- C21 ----
\* A further branch Query of MultiQuery is dispatched.
NextBranchDispatched ==
    /\ pc \in {"multi", "multi_retry"}
    /\ pc' = "multi"
    /\ loc'.qidx = loc.qidx + 1

C21_Step ==
    /\ (NextBranchDispatched /\ Truthy(loc.has_limit, loc.limit)) =>
          Len(loc'.items) < loc.limit
    /\ (pc \in {"multi", "multi_retry"} /\ pc' = "after"
            /\ Truthy(loc.has_limit, loc.limit)) =>
          Len(loc'.items) <= loc.limit

\* C21: in MultiQuery mode with a limit, no further branch Query is
\* dispatched once the unique items accumulated have reached the limit, on
\* every path, the one where a branch was retried after a throughput error
\* included; the final result has at most limit items.
C21_NoBranchAfterLimit == [][C21_Step]_vars

\* ---------------------------------------------------------------------
\* The index advisor alone: _detect_usable_index on AND-combined filter
\* expressions, hand-written (with --filter-values) and compiled.
\* ---------------------------------------------------------------------

\* A filter expression as the user writes it with its own placeholders.
Written(expr, names) ==
    [expr |-> expr, values |-> <<<<"1">>, <<"2">>, <<"3">>>>, names |-> names]

\* A filter expression as build_filter compiles it.
Compiled(filter_str) ==
    LET r == build_filter(filter_str)
    IN [expr |-> r.expr, values |-> r.values, names |-> r.names]

AdvisorInputs ==
    { Written(<<"a", "=", ":val0">>, <<>>),
      Written(<<"(", "a", "=", ":val0", ")">>, <<>>),
      Written(<<"a", "=", ":val0", "AND", "c", ">", ":val1">>, <<>>),
      Written(<<"c", ">", ":val0", "AND", "a", "=", ":val1">>, <<>>),
      Written(<<"b", ">", ":val0", "AND", "a", "=", ":val1",
                "AND", "c", ">", ":val2">>, <<>>),
      Written(<<"#attr0", "=", ":val0", "AND", "c", ">", ":val1">>, <<<<"a">>>>),
      Written(<<"b", ">", ":val0">>, <<>>),
      Written(<<"pk", "=", ":val0", "AND", "a", "=", ":val1">>, <<>>),
      Written(<<"a", "=", ":val0", "AND", "a", "=", ":val1">>, <<>>),
      Written(<<"a", "=", ":val0", "OR", "c", ">", ":val1">>, <<>>),
      Written(<<"(", "c", ">", ":val0", "AND", "a", "=", ":val1", ")">>, <<>>),
      Written(<<"c", ">", ":val0", "AND", "(", "a", "=", ":val1",
                "AND", "b", "<", ":val2", ")">>, <<>>),
      Written(<<"c", "=", ":val0", "AND", "b", ">", ":val1">>, <<>>),
      Written(<<"b", "=", ":val0", "AND", "c", "=", ":val1">>, <<>>),
      Compiled(<<"a", "=", "1">>),
      Compiled(<<"c", ">", "1", "AND", "a", "=", "2">>),
      Compiled(<<"a", "=", "1", "AND", "c", ">", "2">>),
      Compiled(<<"b", ">", "1", "AND", "a", "=", "2", "AND", "c", ">", "3">>),
      Compiled(<<"a", "=", "1", "AND", "b", "=", "2", "AND", "c", "=", "3">>),
      Compiled(<<"c", "=", "1", "AND", "b", "=", "2">>) }

\* table_info of the tables the advisor is asked about.
AdvisorTables == Tables \o << [hash |-> "c", gsis |-> <<>>] >>

\* result = _detect_usable_index(filter, names, values, table_info)
AdvCall ==
    /\ adv_pc = "call"
    /\ adv_pc' = "done"
    /\ adv_out' = detect_usable_index(adv_in.expr, adv_in.names,
                                      AdvisorTables[adv_in.table])
    /\ UNCHANGED adv_in
    /\ UNCHANGED <<pgvars, psvars, cmdvars, fbvars, tplvars, nzvars, csvvars, cmvars, ddvars, rtvars, twvars, hsvars>>

InitAdvisor ==
    /\ PageIdle
    /\ ParIdle
    /\ CmdIdle
    /\ HsIdle
    /\ TwIdle
    /\ RtIdle
    /\ FbIdle
    /\ TplIdle
    /\ NzIdle
    /\ CsvIdle
    /\ CmIdle
    /\ DdIdle
    /\ adv_pc = "call"
    /\ \E i \in AdvisorInputs, t \in 1..Len(AdvisorTables) :
          adv_in = [expr |-> i.expr, values |-> i.values, names |-> i.names,
                    table |-> t]
    /\ adv_out = <<>>

NextAdvisor == AdvCall

SpecAdvisor == InitAdvisor /\ [][NextAdvisor]_vars

\* ---- C22 ----
\* The HASH keys of a table the advisor may use: those of its active
\* GSIs and its own.
UsableHashKeys(t) ==
    {t.gsis[i].hash : i \in {k \in 1..Len(t.gsis) : t.gsis[k].status = "ACTIVE"}}
        \cup {t.hash}

\* The positions of the filter where an equality clause on a usable HASH
\* key stands.
KeyClauses(inp) ==
    {i \in 1..(Len(inp.expr) - 2) :
        /\ inp.expr[i + 1] = "="
        /\ \E k \in UsableHashKeys(AdvisorTables[inp.table]) :
              resolve_attr(inp.expr[i], inp.names) = <<k>>
        /\ inp.expr[i + 2] \in Range(ValPlaceholders)
        /\ (i = 1 \/ inp.expr[i - 1] \in {"AND", "("})}

\* An OR-free filter made of comparisons, AND and parentheses.
AndCombined(inp) ==
    /\ ~has_or(inp.expr)
    /\ \A item \in EvalItems : Holds(inp.expr, item, inp.values, inp.names) # 2

\* The truth of "key condition AND residual" on an item; 2 if one of
\* them is not an expression.
SplitHolds(inp, d, item) ==
    LET k == Holds(d.key_condition, item, inp.values, inp.names)
        r == IF d.remaining_filter = <<>> THEN 1
             ELSE Holds(d.remaining_filter, item, inp.values, inp.names)
    IN IF k = 2 \/ r = 2 THEN 2 ELSE Min(k, r)

\* C22: for an OR-free, AND-combined filter with an equality clause on an
\* indexed HASH key, the advisor's key condition is one of these clauses,
\* the residual filter is a well-formed expression without a copy of the
\* key clause, "key condition AND residual" is equivalent to the original
\* filter, and the residual is absent exactly when the filter was the key
\* clause alone.
C22_KeyConditionAndResidual ==
    (adv_pc = "done" /\ AndCombined(adv_in) /\ KeyClauses(adv_in) # {}) =>
        /\ adv_out.kind = "query"
        /\ \E i \in KeyClauses(adv_in) :
              adv_out.key_condition = SubSeq(adv_in.expr, i, i + 2)
        /\ \A i \in 1..(Len(adv_out.remaining_filter) - 2) :
              SubSeq(adv_out.remaining_filter, i, i + 2) # adv_out.key_condition
        /\ \A item \in EvalItems :
              SplitHolds(adv_in, adv_out, item)
                  = Holds(adv_in.expr, item, adv_in.values, adv_in.names)
        /\ (adv_out.remaining_filter = <<>>)
              <=> (Unwrapped(adv_in.expr) = adv_out.key_condition)

\* ---- C23 ----
\* The segment scans in flight are never more than the worker threads of
\* the pool, and parallel_scan is left only when none is in flight.
C23_State ==
    ps_pc \notin {"idle", "call"} =>
        /\ DOMAIN fut = Segments
        /\ NRunning <= (IF ps_mw_arg = 0 THEN Min(ps_total, WorkerCap)
                        ELSE ps_mw_arg)
        /\ ps_pc \in {"returned", "raised"} =>
              \A s \in Segments : Finished(fut[s])

\* Every segment is submitted once, by the submit comprehension, with the
\* scanner's total_segments: it is started from "pending" only, never
\* pending again, and total_segments does not change.
C23_Step ==
    /\ ps_total' = ps_total
    /\ (ps_pc = "call" /\ ps_pc' # "call") =>
          /\ DOMAIN fut' = Segments
          /\ \A s \in Segments : fut'[s] = "pending"
    /\ ps_pc \notin {"idle", "call"} =>
          \A s \in Segments :
              /\ fut'[s] = "pending" => fut[s] = "pending"
              /\ (fut'[s] = "running" /\ fut[s] # "running") => fut[s] = "pending"
              /\ Finished(fut[s]) => fut'[s] = fut[s]

CompletionRank(s) == CHOOSE i \in 1..Len(ps_order) : ps_order[i] = s

\* The segments whose scan has ended and that the collecting loop has not
\* been handed yet.
Uncollected == {t \in Range(ps_order) : t \notin ps_collected}

\* One step of the merge: the merged list changes in the collecting loop
\* only, by the whole result of one finished segment not collected before
\* (nothing for a failed one), never after the limit was reached; what is
\* returned is the merged list cut at the limit.  `strict` asks for the
\* segment to be the earliest finished one among those not collected.
MergeStep(strict) ==
    /\ (all_items' # all_items \/ ps_collected' # ps_collected) =>
          /\ ps_pc = "collect"
          /\ ~ps_stopped
          /\ \E s \in Uncollected :
                /\ ps_collected' = ps_collected \cup {s}
                /\ all_items' = IF fut[s] = "done"
                                THEN all_items \o seg_items[s] ELSE all_items
                /\ (strict \/ ps_initial = {}) =>
                      \A t \in Uncollected : CompletionRank(s) <= CompletionRank(t)
    /\ (ps_pc # "returned" /\ ps_pc' = "returned") =>
          ps_result' = IF Truthy(ps_has_limit, ps_limit)
                       THEN PySlice(all_items, ps_limit) ELSE all_items

\* C24 as stated: the merged result is written by the collecting loop
\* only and is the concatenation, in completion order, of the whole
\* results of the segments collected before the limit was reached, no item
\* lost or duplicated; later results are discarded.
C24_MergedInCompletionOrder == [][MergeStep(TRUE)]_vars

\* C24, amended: the same, in the order as_completed hands the segments
\* over - those already finished when collecting starts first, in no
\* particular order, then the others in completion order.
C24_MergedInCollectionOrder == [][MergeStep(FALSE)]_vars

\* A scan returned after the limit was reached on the results of two
\* segments, a third one's result being discarded.
C24_Witness ==
    /\ ps_pc = "returned"
    /\ ps_stopped
    /\ Len(all_items) = 2
    /\ all_items[1][1] # all_items[2][1]
    /\ \E s \in Segments :
          s \notin ps_collected /\ fut[s] = "done" /\ seg_items[s] # <<>>

\* ---- C25 ----
\* A chain c1 OP c2 OP c3 of three equalities with one operator and no
\* parentheses.
Chain3(f) ==
    /\ Len(f) = 11
    /\ f[4] \in {"AND", "OR"} /\ f[8] = f[4]
    /\ \A i \in {2, 6, 10} : f[i] = "="
    /\ \A i \in 1..11 : f[i] \notin {"(", ")"}

\* The compiled clause number k (from 0) of a chain.
Clause(f, k) == <<f[4 * k + 1], "=", ValPlaceholders[k + 1]>>

\* ((c1 OP c2) OP c3)
LeftNested(f) ==
    <<"(", "(">> \o Clause(f, 0) \o <<f[4]>> \o Clause(f, 1) \o <<")", f[4]>>
        \o Clause(f, 2) \o <<")">>

\* (c1 OP (c2 OP c3))
RightNested(f) ==
    <<"(">> \o Clause(f, 0) \o <<f[4], "(">> \o Clause(f, 1) \o <<f[4]>>
        \o Clause(f, 2) \o <<")", ")">>

\* No split of a filter happens at an operator that parentheses enclose.
SplitsAtTopLevel(f) ==
    \A ops \in {AndLexemes, OrLexemes} :
        LET sp == split_by_operator(f, ops)
        IN sp # <<>> =>
              /\ count_parentheses(sp[1]) = 0
              /\ f[Len(sp[1]) + 1] \in ops
              /\ sp[1] \o <<f[Len(sp[1]) + 1]>> \o sp[2] = f

RoundTripRuns ==
    [format : {"csv", "json"}, mode : {"strings", "flatten"}, limit : {0, 2},
     attributes : {"", "a,b"},
     filter : { <<>>, <<"c", ">", "1">>, <<"a", "=", "1">>,
                <<"c", ">", "1", "AND", "a", "=", "2">>,
                <<"a", "=", "1", "OR", "status", "=", "2">> },
     compress : {"", "gzip"}, bool_format : {"lowercase", "numeric"},
     null_value : {"", "NULL"}, delimiter : {",", ";"},
     encoding : {"utf-8", "latin-1"}, parallel_scan : BOOLEAN,
     segments : {DefaultSegments, 8}, item_count : {0, 200000}]

\* The parameters of the command as click passes them for these options.
round_trip_params(o) ==
    [format |-> o.format, mode |-> o.mode, limit |-> o.limit,
     attributes |-> o.attributes, filter |-> o.filter, filter_values |-> <<>>,
     key_condition |-> <<>>, index |-> "", compress |-> o.compress,
     bool_format |-> o.bool_format, null_value |-> o.null_value,
     delimiter |-> o.delimiter, encoding |-> o.encoding,
     parallel_scan |-> o.parallel_scan, segments |-> o.segments]

\* The parameters of a run without options: the defaults of click.
DefaultParams ==
    [format |-> DefaultFormat, mode |-> DefaultMode, limit |-> 0,
     attributes |-> "", filter |-> <<>>, filter_values |-> <<>>,
     key_condition |-> <<>>, index |-> "", compress |-> "",
     bool_format |-> "lowercase", null_value |-> "", delimiter |-> ",",
     encoding |-> "utf-8", parallel_scan |-> FALSE,
     segments |-> DefaultSegments]

\* Lines 246-272 on all the parameters of the function: those that the
\* merge does not name keep the value of the command line.
merge_template(p, t) ==
    [p EXCEPT
       !.format = IF @ = DefaultFormat THEN template_get(t.format, DefaultFormat)
                  ELSE @,
       !.limit = IF @ = 0 THEN t.limit ELSE @,
       !.attributes = IF @ = "" THEN t.attributes ELSE @,
       !.filter = IF @ = <<>> THEN t.filter ELSE @,
       !.filter_values = IF @ = <<>> THEN t.filter_values ELSE @,
       !.key_condition = IF @ = <<>> THEN t.key_condition ELSE @,
       !.index = IF @ = "" THEN t.index ELSE @,
       !.mode = IF @ = DefaultMode THEN template_get(t.mode, DefaultMode) ELSE @,
       !.compress = IF @ = "" THEN t.compress ELSE @,
       !.bool_format = IF @ = "lowercase"
                       THEN template_get(t.bool_format, "lowercase") ELSE @]

\* Lines 403-565 and 576-588, given the compiled filter c and the locals
\* l1 the advisor left: parallel scan is switched on for a large table
\* unless the run is a dry run, and one of the four branches is taken.
\* The record holds the locals the run then works with, the strategy it
\* executes and the one the dry-run report would name.
plan_after_detection(p, dry_run, item_count, c, l1) ==
    LET auto == ~l1.use_query /\ ~dry_run /\ item_count > AutoParallelItems
                    /\ ~p.parallel_scan
        l2 == [multi_query_mode |-> l1.multi_query_mode,
               use_query |-> l1.use_query,
               use_parallel |-> (p.parallel_scan \/ auto)]
    IN [ok |-> c.ok,
        format |-> p.format, mode |-> p.mode, limit |-> p.limit,
        attributes |-> p.attributes, filter |-> l1.filter,
        values |-> c.values, names |-> c.names,
        key_condition |-> l1.key_condition, index |-> l1.index,
        query_configs |-> l1.query_configs,
        compress |-> p.compress, bool_format |-> p.bool_format,
        null_value |-> p.null_value, delimiter |-> p.delimiter,
        encoding |-> p.encoding, parallel_scan |-> p.parallel_scan,
        segments |-> IF auto THEN auto_segments(p.segments, item_count)
                     ELSE p.segments,
        strategy |-> IF l2.multi_query_mode THEN "multi"
                     ELSE IF l2.use_query THEN "query"
                     ELSE IF l2.use_parallel /\ ~dry_run THEN "parallel"
                     ELSE "scan",
        reported |-> reported_strategy(l2)]

\* Lines 329-402, given the compiled filter c (the local `filter` is now
\* the compiled expression): the advisor is asked when there is a filter
\* and neither a key condition nor an index.
plan_after_prepare(p, dry_run, item_count, c) ==
    LET l0 == [filter |-> c.expr, key_condition |-> p.key_condition,
               index |-> p.index, use_query |-> (p.key_condition # <<>>),
               multi_query_mode |-> FALSE, query_configs |-> <<>>,
               detected |-> [kind |-> "skipped"]]
    IN plan_after_detection(
           p, dry_run, item_count, c,
           IF ~l0.use_query /\ l0.filter # <<>> /\ l0.index = ""
           THEN apply_detection(
                    l0, detect_usable_index(l0.filter, c.names, Tables[1]),
                    l0.filter)
           ELSE l0)

\* Lines 297-565: the filter is compiled unless --filter-values came with
\* it, then the run goes on with the advisor and the choice of a branch.
run_plan(p, dry_run, item_count) ==
    plan_after_prepare(
        p, dry_run, item_count,
        IF p.filter # <<>> /\ p.filter_values = <<>>
        THEN build_filter(p.filter)
        ELSE [ok |-> TRUE, expr |-> p.filter, values |-> p.filter_values,
              names |-> <<>>])

\* The locals of a run that is not a dry run.
run_locals(p, item_count) == run_plan(p, FALSE, item_count)

\* create_template_from_args(...) on the locals at the end of the run:
\* the expression attribute values and names are not among the arguments.
create_template_from_args(l) ==
    [format |-> l.format, limit |-> l.limit, attributes |-> l.attributes,
     filter |-> l.filter, filter_values |-> <<>>,
     key_condition |-> l.key_condition, index |-> l.index, mode |-> l.mode,
     null_value |-> l.null_value, delimiter |-> l.delimiter,
     encoding |-> l.encoding, compress |-> l.compress,
     parallel_scan |-> l.parallel_scan, segments |-> l.segments,
     bool_format |-> l.bool_format]

\* `export T <options> --save-template X` ran to its end.
RtFirstRun ==
    /\ rt_pc = "first"
    /\ LET l == run_locals(round_trip_params(rt_cli), rt_cli.item_count)
       IN IF l.ok
          THEN /\ rt_first' = l
               /\ rt_template' = create_template_from_args(l)
               /\ rt_pc' = "second"
          ELSE /\ rt_pc' = "failed"
               /\ UNCHANGED <<rt_first, rt_template>>
    /\ UNCHANGED <<rt_cli, rt_second>>
    /\ UNCHANGED <<pgvars, psvars, cmdvars, fbvars, tplvars, nzvars, csvvars, cmvars, ddvars, advvars, twvars, hsvars>>

\* `export T --use-template X` got as far as its strategy.
RtSecondRun ==
    /\ rt_pc = "second"
    /\ rt_second' = run_locals(merge_template(DefaultParams, rt_template),
                               rt_cli.item_count)
    /\ rt_pc' = "done"
    /\ UNCHANGED <<rt_cli, rt_first, rt_template>>
    /\ UNCHANGED <<pgvars, psvars, cmdvars, fbvars, tplvars, nzvars, csvvars, cmvars, ddvars, advvars, twvars, hsvars>>

InitRoundTrip ==
    /\ PageIdle
    /\ ParIdle
    /\ CmdIdle
    /\ HsIdle
    /\ TwIdle
    /\ FbIdle
    /\ TplIdle
    /\ NzIdle
    /\ CsvIdle
    /\ CmIdle
    /\ DdIdle
    /\ AdvIdle
    /\ rt_pc = "first"
    /\ rt_cli \in RoundTripRuns
    /\ rt_first = <<>>
    /\ rt_template = <<>>
    /\ rt_second = <<>>

NextRoundTrip == RtFirstRun \/ RtSecondRun

SpecRoundTrip == InitRoundTrip /\ [][NextRoundTrip]_vars

\* ---- C26 ----
\* What an expression of a run means on an item, with the values and
\* names of that run: 1 true, 0 false, 2 not an expression, 3 absent.
Meaning(expr, l, item) ==
    IF expr = <<>> THEN 3 ELSE Holds(expr, item, l.values, l.names)

\* C26: a run with --save-template T, then a run with --use-template T and
\* no other option, work with the same effective parameters (meaning of
\* the filter and of the key condition, index, format, mode, limit,
\* attributes, compression, boolean format, null value, delimiter,
\* encoding, parallel_scan, segments) and select the same strategy.
C26_TemplateRoundTrip ==
    rt_pc = "done" =>
        /\ rt_second.ok
        /\ \A item \in EvalItems :
              /\ Meaning(rt_second.filter, rt_second, item)
                    = Meaning(rt_first.filter, rt_first, item)
              /\ Meaning(rt_second.key_condition, rt_second, item)
                    = Meaning(rt_first.key_condition, rt_first, item)
        /\ \A k \in {"index", "format", "mode", "limit", "attributes",
                     "compress", "bool_format", "null_value", "delimiter",
                     "encoding", "parallel_scan", "segments", "strategy"} :
              rt_second[k] = rt_first[k]

\* ---------------------------------------------------------------------
\* The same options with and without --dry-run, on the same table.
\* ---------------------------------------------------------------------

\* The options of the two runs, the item count of the table, and whether
\* the read of the dry run finds an item (without one nothing is reported).
TwinRuns ==
    [limit : {0, 2},
     filter : { <<>>, <<"c", ">", "1">>, <<"a", "=", "1">>,
                <<"c", ">", "1", "AND", "a", "=", "2">>,
                <<"a", "=", "1", "OR", "status", "=", "2">> },
     parallel_scan : BOOLEAN, segments : {DefaultSegments, 8},
     item_count : ItemCounts, found : BOOLEAN]

twin_params(o) ==
    [DefaultParams EXCEPT !.limit = o.limit, !.filter = o.filter,
                          !.parallel_scan = o.parallel_scan,
                          !.segments = o.segments]

\* The run with --dry-run, up to its report.
TwDryRun ==
    /\ tw_pc = "dry"
    /\ LET l == run_plan(twin_params(tw_cli), TRUE, tw_cli.item_count)
       IN tw_dry' = [l EXCEPT !.reported = IF tw_cli.found THEN @ ELSE ""]
    /\ tw_pc' = "real"
    /\ UNCHANGED <<tw_cli, tw_real>>
    /\ UNCHANGED <<pgvars, psvars, cmdvars, fbvars, tplvars, nzvars, csvvars, cmvars, ddvars, advvars, rtvars, hsvars>>

\* The run without --dry-run, up to the branch it takes.
TwRealRun ==
    /\ tw_pc = "real"
    /\ tw_real' = run_plan(twin_params(tw_cli), FALSE, tw_cli.item_count)
    /\ tw_pc' = "done"
    /\ UNCHANGED <<tw_cli, tw_dry>>
    /\ UNCHANGED <<pgvars, psvars, cmdvars, fbvars, tplvars, nzvars, csvvars, cmvars, ddvars, advvars, rtvars, hsvars>>

InitTwin ==
    /\ PageIdle
    /\ ParIdle
    /\ CmdIdle
    /\ HsIdle
    /\ FbIdle
    /\ TplIdle
    /\ NzIdle
    /\ CsvIdle
    /\ CmIdle
    /\ DdIdle
    /\ AdvIdle
    /\ RtIdle
    /\ tw_pc = "dry"
    /\ tw_cli \in TwinRuns
    /\ tw_dry = <<>>
    /\ tw_real = <<>>

NextTwin == TwDryRun \/ TwRealRun

SpecTwin == InitTwin /\ [][NextTwin]_vars

\* ---- C27 ----
\* C27: the strategy a dry run reports (Regular Scan, Parallel Scan with
\* its number of segments, Query, Multiple Queries) is the one the run
\* with the same options and without --dry-run executes.
C27_DryRunReportsExecutedStrategy ==
    (tw_pc = "done" /\ tw_dry.reported # "") =>
        /\ tw_dry.reported = tw_real.strategy
        /\ tw_dry.reported = "parallel" => tw_dry.segments = tw_real.segments

\* ---- C28 ----
\* The number of matching items the segment scans were sent: the table
\* holds at least that many.
RECURSIVE SeenUpTo(_)
SeenUpTo(s) == IF s < 0 THEN 0 ELSE seg_seen[s] + SeenUpTo(s - 1)

ItemsSeen == SeenUpTo(ps_total - 1)

\* C28: whenever the table holds at least `limit` matching items,
\* parallel_scan called with that limit returns exactly `limit` items,
\* however the items are spread over the segments (all of them in one
\* segment included) and in whatever order the segments complete.  Stated
\* for a limit of 1 or more and a scan no segment of which failed.
C28_ExactlyLimitWhenEnoughItems ==
    (/\ ps_pc = "returned"
     /\ ps_has_limit /\ ps_limit >= 1
     /\ failed_segments = <<>>
     /\ \A s \in Segments : fut[s] # "failed"
     /\ ItemsSeen >= ps_limit)
        => Len(ps_result) = ps_limit

\* ---- C29 ----
\* The rows of the CSV file that come from one item in normalize mode:
\* export_to_csv appends, and the streaming export writes, one flattened
\* row for each row _normalize_lists returns (the values of the rows are
\* scalars here, which _flatten_dict leaves as they are).
normalize_mode_rows(rows) == [i \in 1..Len(rows) |-> rows[i]]

\* C29: in normalize mode every input item contributes at least one row to
\* the CSV file, an item whose list-valued attributes are all empty
\* included.
C29_EveryItemGivesARow ==
    nz_pc = "done" => Len(normalize_mode_rows(nz_rows)) >= 1

\* ---------------------------------------------------------------------
\* HostsManager: the section of the hosts file between MARKER_START and
\* MARKER_END, as the sequence of its "ip hostname" lines.  The writes
\* (sudo tee) succeed.
\* ---------------------------------------------------------------------

MaxHostCalls == 4

HostNames == {"db", "db2"}

LoopbackIps == {"127.0.0.2", "127.0.0.3"}

\* `hostname in line` for a line "ip host": the hostnames that are part
\* of the text of the line.
NamesInLine(line) == IF line.host = "db2" THEN {"db", "db2"} ELSE {line.host}

NoSection == [section |-> FALSE, entries |-> <<>>]

\* get_managed_entries: [] without the start marker.
get_managed_entries(file) == IF file.section THEN file.entries ELSE <<>>

\* remove_entry: the file it writes; nothing is written without the
\* start marker.
remove_entry(file, hostname) ==
    IF ~file.section THEN file
    ELSE [file EXCEPT !.entries =
             SelectSeq(@, LAMBDA line : hostname \notin NamesInLine(line))]

\* The first entry of the section with this hostname; 0 if none.
first_entry_of(entries, hostname) ==
    LET hits == {i \in 1..Len(entries) : entries[i].host = hostname}
    IN IF hits = {} THEN 0 ELSE CHOOSE i \in hits : \A j \in hits : i <= j

\* add_entry: the file it leaves.  `content` is read at line 58.  When
\* the hostname is there with another IP, remove_entry(hostname) writes
\* the file without its lines (line 72), and line 79 then writes over it
\* the content read before with the new entry put before the end marker.
add_entry(file, ip, hostname) ==
    LET content == [section |-> TRUE, entries |-> file.entries]
        entries == get_managed_entries(file)
        k == first_entry_of(entries, hostname)
        new_content == [content EXCEPT
                          !.entries = Append(@, [ip |-> ip, host |-> hostname])]
    IN IF k # 0 /\ entries[k].ip = ip THEN file ELSE new_content

HsAddEntry ==
    /\ hs_calls < MaxHostCalls
    /\ \E ip \in LoopbackIps, hostname \in HostNames :
          /\ hs_file' = add_entry(hs_file, ip, hostname)
          /\ hs_last' = [op |-> "add_entry", ip |-> ip, hostname |-> hostname]
    /\ hs_calls' = hs_calls + 1
    /\ UNCHANGED <<pgvars, psvars, cmdvars, fbvars, tplvars, nzvars, csvvars, cmvars, ddvars, advvars, rtvars, twvars>>

HsRemoveEntry ==
    /\ hs_calls < MaxHostCalls
    /\ \E hostname \in HostNames :
          /\ hs_file' = remove_entry(hs_file, hostname)
          /\ hs_last' = [op |-> "remove_entry", ip |-> "", hostname |-> hostname]
    /\ hs_calls' = hs_calls + 1
    /\ UNCHANGED <<pgvars, psvars, cmdvars, fbvars, tplvars, nzvars, csvvars, cmvars, ddvars, advvars, rtvars, twvars>>

InitHosts ==
    /\ PageIdle
    /\ ParIdle
    /\ CmdIdle
    /\ FbIdle
    /\ TplIdle
    /\ NzIdle
    /\ CsvIdle
    /\ CmIdle
    /\ DdIdle
    /\ AdvIdle
    /\ RtIdle
    /\ TwIdle
    /\ hs_file = NoSection
    /\ hs_last = [op |-> "none", ip |-> "", hostname |-> ""]
    /\ hs_calls = 0

NextHosts == HsAddEntry \/ HsRemoveEntry

SpecHosts == InitHosts /\ [][NextHosts]_vars

\* ---- C30 ----
\* The entries of the managed section for a hostname.
EntriesOf(hostname) ==
    SelectSeq(get_managed_entries(hs_file), LAMBDA line : line.host = hostname)

\* C30: after any sequence of add_entry and remove_entry calls the managed
\* section holds at most one entry per hostname, and right after
\* add_entry(ip, hostname) that entry maps hostname to ip, also when the
\* hostname was there before with another IP.
C30_OneEntryPerHostname ==
    /\ \A hostname \in HostNames : Len(EntriesOf(hostname)) <= 1
    /\ hs_last.op = "add_entry" =>
          EntriesOf(hs_last.hostname)
              = <<[ip |-> hs_last.ip, host |-> hs_last.hostname]>>

====
